---- MODULE Spec2Model ----
(***************************************************************************)
(* The hybrid retrieval-and-reasoning engine of src/src/app/lib/graphrag.ts *)
(* with the graph store gateway of src/src/app/lib/neo4j.ts and the vector  *)
(* gateway of src/src/app/lib/weaviate.ts.                                  *)
(*                                                                         *)
(* Scores, weights and confidences are kept in tenths (0.5 is 5, 1.0 is    *)
(* 10); times are milliseconds as returned by Date.now().                  *)
(***************************************************************************)
EXTENDS Integers, Sequences, FiniteSets, TLC

VARIABLES
    now,         \* Date.now()
    ticks,       \* how often the clock has advanced (bounded by MaxTicks)
    connected,   \* whether the graph store answers (neo4j driver/session usable)
    nodes,       \* ids of the nodes held by the graph store
    rels,        \* ids of the relationships held by the graph store
    queryCache,  \* graphrag.ts queryCache: set of [key, result, timestamp], one per key
    calls,       \* the calls of the exported functions, by call id
    lastOk,      \* per cache key, the last result computed from a successful
                 \* store answer and the time it was computed (the store's call log)
    started,     \* the number of calls made so far
    entities,    \* the CulturalEntity nodes of the store, in creation order: [name, description]
    uniqueName,  \* whether the constraint cultural_entity_name exists (initializeGraphSchema ran)
    bulk,        \* createCulturalEntities in progress: position, successCount, errors, result
    lastRequest, \* the last request to a route: the request, the statements it sent, the response
    driver,      \* neo4j.ts module variable driver: "null" or "open"
    probe,       \* the last application of a function to drawn inputs: [fn, input, output]
    gateway      \* concurrent gateway calls: the driver instances made and closed, the
                 \* instance the module variable driver refers to, each call's position

\* the search engine's variables and the management side's
engine == <<now, ticks, connected, nodes, rels, queryCache, calls, lastOk, started>>
mgmt == <<entities, uniqueName, bulk, lastRequest, driver, probe, gateway>>
mgmtButLast == <<entities, uniqueName, bulk, driver, probe, gateway>>
vars == <<now, ticks, connected, nodes, rels, queryCache, calls, lastOk, started, entities, uniqueName, bulk, lastRequest, driver, probe, gateway>>

(***************************************************************************)
(* Bounds of the model.                                                    *)
(***************************************************************************)
\* calls that can be in progress (or settled and not yet returned) at once
NCalls == 2
\* calls made in one behaviour
MaxStarted == 3
\* advances of the clock: it reads 0, 299999 and 300000
MaxTicks == 2

(***************************************************************************)
(* DEFAULT_GRAPHRAG_CONFIG, in tenths where fractional.                     *)
(***************************************************************************)
maxTraversalDepth == 3
maxResults == 10
cacheTimeout == 300000
weightGraph == 6
weightVector == 3
reasoningDepth == 2
defaultMinScore == 5
contextMaxResults == 5
confidenceFloor == 5
vectorRelevance == 8

(***************************************************************************)
(* Small helpers.                                                          *)
(***************************************************************************)
Min(a, b) == IF a < b THEN a ELSE b
Max(a, b) == IF a > b THEN a ELSE b
Range(s) == {s[i] : i \in DOMAIN s}
Take(s, n) == SubSeq(s, 1, Min(n, Len(s)))
Has(obj, f) == f \in DOMAIN obj
\* JavaScript destructuring with a default: the default applies to an absent field.
Get(obj, f, dflt) == IF f \in DOMAIN obj THEN obj[f] ELSE dflt
\* Math.ceil(a / 10) for a >= 0
CeilTenth(a) == (a + 9) \div 10

(***************************************************************************)
(* The entities and relationships the store may hold (CULTURAL_ENTITIES and *)
(* CULTURAL_RELATIONSHIPS of culturalData.ts): Diwali, Lakshmi, Kheer, and  *)
(* the triangle Diwali-WORSHIPS->Lakshmi, Diwali-ASSOCIATED_WITH->Kheer,    *)
(* Lakshmi-ASSOCIATED_WITH->Kheer.                                          *)
(***************************************************************************)
NodeIds == {1, 2, 3}
RelIds == {1, 2, 3}
\* the order in which the store enumerates relationships
RelOrder == <<1, 2, 3>>

NodeName(n) == CASE n = 1 -> "Diwali" [] n = 2 -> "Lakshmi" [] OTHER -> "Kheer"
NodeType(n) == CASE n = 1 -> "festival" [] n = 2 -> "deity" [] OTHER -> "food"
NodeRegion(n) == "All India"
NodeCategory(n) == CASE n = 1 -> "Hindu Festival" [] n = 2 -> "Hindu Deity" [] OTHER -> "Sweet"
NodeDescription(n) ==
    CASE n = 1 -> "Festival of lights celebrated across India"
      [] n = 2 -> "Hindu goddess of wealth"
      [] OTHER -> "Rice pudding"

RelType(r) == CASE r = 1 -> "WORSHIPS" [] OTHER -> "ASSOCIATED_WITH"
RelStart(r) == CASE r = 1 -> 1 [] r = 2 -> 1 [] OTHER -> 2
RelEnd(r) == CASE r = 1 -> 2 [] r = 2 -> 3 [] OTHER -> 3
RelStrength(r) == CASE r = 1 -> 9 [] r = 2 -> 7 [] OTHER -> 6

\* Integer.toString() of a store-native identity
IdToString(i) ==
    CASE i = 0 -> "0" [] i = 1 -> "1" [] i = 2 -> "2" [] i = 3 -> "3"
      [] i = 4 -> "4" [] OTHER -> "9"
\* parseInt: the number a decimal string denotes, NaN (here -1, the id of no
\* node) for a string that is no number
NaN == -1
ParseInt(s) ==
    IF \E i \in 0..9 : IdToString(i) = s
    THEN CHOOSE i \in 0..9 : IdToString(i) = s
    ELSE NaN

\* convertNeo4jValue on a Node and on a Relationship
ConvertNode(n) ==
    [id |-> IdToString(n), name |-> NodeName(n), type |-> NodeType(n),
     region |-> NodeRegion(n), description |-> NodeDescription(n)]
ConvertRel(r) ==
    [id |-> IdToString(r), type |-> RelType(r), strength |-> RelStrength(r),
     startNodeId |-> IdToString(RelStart(r)), endNodeId |-> IdToString(RelEnd(r))]

(***************************************************************************)
(* The Cypher text built by traverseGraph, as a sequence of tokens.  The   *)
(* relationship detail "r*1..d" / "r:'T1'|'T2'*1..d" is one token carrying  *)
(* its types and depth.                                                    *)
(***************************************************************************)
Tok(s) == [tok |-> s, types |-> <<>>, max |-> 0]
RelTok(types, d) == [tok |-> "r*1..", types |-> types, max |-> d]

\* String.prototype.replace(pattern, replacement) with a string pattern:
\* the first occurrence only, the text unchanged when there is none
ReplaceFirst(text, pat, repl) ==
    IF \E i \in 1..Len(text) : text[i].tok = pat
    THEN LET i == CHOOSE j \in 1..Len(text) :
                      /\ text[j].tok = pat
                      /\ \A k \in 1..(j-1) : text[k].tok # pat
         IN SubSeq(text, 1, i - 1) \o repl \o SubSeq(text, i + 1, Len(text))
    ELSE text

\* graphrag.ts 90-109: the MATCH pattern of a traversal
BuildTraversePattern(relationshipTypes, direction, maxDepth) ==
    LET base == << Tok("(start)"), Tok("-["), RelTok(<<>>, maxDepth),
                   Tok("]-"), Tok("(end)") >>
        repl == (IF direction = "OUTGOING" THEN <<>> ELSE <<Tok("<")>>)
                \o << Tok("-["), RelTok(relationshipTypes, maxDepth), Tok("]-") >>
                \o (IF direction = "INCOMING" THEN <<>> ELSE <<Tok(">")>>)
    IN IF Len(relationshipTypes) > 0
       THEN ReplaceFirst(base, "]-", repl)
       ELSE base

\* The store's reading of a MATCH pattern: node, relationship (with at most
\* one arrow head), node.  Anything else is a syntax error.
ParsePattern(text) ==
    LET toks == [i \in 1..Len(text) |-> text[i].tok]
    IN CASE toks = <<"(start)", "-[", "r*1..", "]-", "(end)">> ->
              [ok |-> TRUE, dir |-> "BOTH", types |-> text[3].types, max |-> text[3].max]
         [] toks = <<"(start)", "-[", "r*1..", "]-", ">", "(end)">> ->
              [ok |-> TRUE, dir |-> "OUTGOING", types |-> text[3].types, max |-> text[3].max]
         [] toks = <<"(start)", "<", "-[", "r*1..", "]-", "(end)">> ->
              [ok |-> TRUE, dir |-> "INCOMING", types |-> text[4].types, max |-> text[4].max]
         [] OTHER -> [ok |-> FALSE, dir |-> "BOTH", types |-> <<>>, max |-> 0]

(***************************************************************************)
(* Variable-length path matching of the store: the paths of 1..max         *)
(* relationships from the start node that use no relationship twice,       *)
(* in order of length.  A raw path is [ns, rs]: the node ids visited and   *)
(* the relationship ids followed.                                          *)
(***************************************************************************)
Follows(r, n, dir) ==
    CASE dir = "OUTGOING" -> RelStart(r) = n
      [] dir = "INCOMING" -> RelEnd(r) = n
      [] OTHER -> RelStart(r) = n \/ RelEnd(r) = n
OtherEnd(r, n) == IF RelStart(r) = n THEN RelEnd(r) ELSE RelStart(r)

ExtendOne(p, R, pat) ==
    LET last == p.ns[Len(p.ns)]
        ok(r) == /\ r \in R
                 /\ r \notin Range(p.rs)
                 /\ Follows(r, last, pat.dir)
                 /\ (Len(pat.types) > 0 => RelType(r) \in Range(pat.types))
        sel == SelectSeq(RelOrder, ok)
    IN [i \in 1..Len(sel) |->
          [ns |-> Append(p.ns, OtherEnd(sel[i], last)), rs |-> Append(p.rs, sel[i])]]

RECURSIVE ExtendAll(_, _, _)
ExtendAll(ps, R, pat) ==
    IF ps = <<>> THEN <<>>
    ELSE ExtendOne(Head(ps), R, pat) \o ExtendAll(Tail(ps), R, pat)

RECURSIVE PathsOfLength(_, _, _, _)
PathsOfLength(k, start, R, pat) ==
    IF k <= 1 THEN ExtendOne([ns |-> <<start>>, rs |-> <<>>], R, pat)
    ELSE ExtendAll(PathsOfLength(k - 1, start, R, pat), R, pat)

RECURSIVE PathsUpTo(_, _, _, _)
PathsUpTo(k, start, R, pat) ==
    IF k < 1 THEN <<>>
    ELSE PathsUpTo(k - 1, start, R, pat) \o PathsOfLength(k, start, R, pat)

\* The mutant of MatchPaths: the upper bound of the pattern is off by one
MatchPathsOneDeeper(start, N, R, pat) ==
    IF start \in N THEN PathsUpTo(pat.max + 1, start, R, pat) ELSE <<>>

MatchPaths(start, N, R, pat) ==
    IF start \in N THEN PathsUpTo(pat.max, start, R, pat) ELSE <<>>

\* neo4j.ts 293-313: convertNeo4jValue on a Path.  The nodes are the
\* segments' start and end nodes, flattened, less every node equal to the
\* one just before it in the flattened list.
RECURSIVE DropRepeats(_, _)
DropRepeats(flat, j) ==
    IF j > Len(flat) THEN <<>>
    ELSE (IF j = 1 \/ flat[j].id # flat[j - 1].id THEN <<flat[j]>> ELSE <<>>)
         \o DropRepeats(flat, j + 1)

ConvertPath(p) ==
    LET flat == [j \in 1..(2 * Len(p.rs)) |->
                    IF j % 2 = 1 THEN ConvertNode(p.ns[(j + 1) \div 2])
                    ELSE ConvertNode(p.ns[(j \div 2) + 1])]
    IN [nodes |-> DropRepeats(flat, 1),
        relationships |-> [i \in 1..Len(p.rs) |-> ConvertRel(p.rs[i])],
        length |-> Len(p.rs)]

\* One record of the traversal statement: path, nodes(path), relationships(path), length(path)
TraverseRow(p) ==
    [path |-> ConvertPath(p),
     pathNodes |-> [i \in 1..Len(p.ns) |-> ConvertNode(p.ns[i])],
     pathRels |-> [i \in 1..Len(p.rs) |-> ConvertRel(p.rs[i])],
     pathLength |-> Len(p.rs)]

(***************************************************************************)
(* The full-text index 'cultural_search' (name, description, significance) *)
(* and the WHERE clause semanticGraphSearch appends to its statement.      *)
(***************************************************************************)
\* the index terms of a concept or context string
WordsOf(s) ==
    CASE s = "Tell me about Diwali" -> <<"diwali">>
      [] s = "Lakshmi" -> <<"lakshmi">>
      [] s = "India" -> <<"india">>
      [] OTHER -> <<>>

\* relevance of a node for one index term, 0 when the node does not hold it
IndexScore(n, w) ==
    CASE n = 1 /\ w = "diwali" -> 9
      [] n = 1 /\ w = "lakshmi" -> 2
      [] n = 1 /\ w = "india" -> 2
      [] n = 2 /\ w = "lakshmi" -> 9
      [] OTHER -> 0

RECURSIVE SumScores(_, _)
SumScores(n, ws) ==
    IF ws = <<>> THEN 0 ELSE IndexScore(n, Head(ws)) + SumScores(n, Tail(ws))

\* graphrag.ts 248: `${concept}${context ? " " + context : ""}`, as its words
SearchTerm(concept, context) ==
    WordsOf(concept) \o (IF context # "" THEN WordsOf(context) ELSE <<>>)

\* Cypher's CONTAINS on the attribute values of the entities above
Contains(s, sub) ==
    \/ sub = ""
    \/ s = sub
    \/ <<s, sub>> \in { <<"All India", "India">>,
                        <<"Festival of lights celebrated across India", "India">> }

\* graphrag.ts 232-240: the predicate text after YIELD
BuildWhere(context, minScore) ==
    (IF context # ""
     THEN <<"WHERE", "region", "OR", "category", "OR", "description">>
     ELSE <<>>)
    \o (IF minScore > 0
        THEN <<(IF context # "" THEN "AND" ELSE "WHERE"), "score">>
        ELSE <<>>)

Atom(a, n, score, context, minScore) ==
    CASE a = "region" -> Contains(NodeRegion(n), context)
      [] a = "category" -> Contains(NodeCategory(n), context)
      [] a = "description" -> Contains(NodeDescription(n), context)
      [] a = "score" -> score >= minScore
      [] OTHER -> FALSE

\* Cypher evaluates AND before OR
RECURSIVE EvalAnd(_, _, _, _, _)
EvalAnd(w, n, score, context, minScore) ==
    IF \E i \in 1..Len(w) : w[i] = "AND"
    THEN LET i == CHOOSE j \in 1..Len(w) :
                      w[j] = "AND" /\ \A k \in 1..(j-1) : w[k] # "AND"
         IN /\ EvalAnd(SubSeq(w, 1, i - 1), n, score, context, minScore)
            /\ EvalAnd(SubSeq(w, i + 1, Len(w)), n, score, context, minScore)
    ELSE Len(w) = 1 /\ Atom(w[1], n, score, context, minScore)

RECURSIVE EvalOr(_, _, _, _, _)
EvalOr(w, n, score, context, minScore) ==
    IF \E i \in 1..Len(w) : w[i] = "OR"
    THEN LET i == CHOOSE j \in 1..Len(w) :
                      w[j] = "OR" /\ \A k \in 1..(j-1) : w[k] # "OR"
         IN \/ EvalAnd(SubSeq(w, 1, i - 1), n, score, context, minScore)
            \/ EvalOr(SubSeq(w, i + 1, Len(w)), n, score, context, minScore)
    ELSE EvalAnd(w, n, score, context, minScore)

EvalWhere(w, n, score, context, minScore) ==
    IF w = <<>> THEN TRUE
    ELSE EvalOr(Tail(w), n, score, context, minScore)

\* ORDER BY score DESC over a set of [node, score]; equal scores in id order
RECURSIVE SortByScoreDesc(_)
SortByScoreDesc(S) ==
    IF S = {} THEN <<>>
    ELSE LET m == CHOOSE x \in S : \A y \in S :
                     \/ x.score > y.score
                     \/ (x.score = y.score /\ x.n <= y.n)
         IN <<[node |-> ConvertNode(m.n), score |-> m.score]>>
            \o SortByScoreDesc(S \ {m})

(***************************************************************************)
(* neo4j.ts executeQuery, as graphrag.ts uses it: the statement is run by  *)
(* the store on the graph it holds then; a store that cannot be reached or *)
(* that rejects the statement yields {success: false, error}, never an     *)
(* exception.  N and R are the store's nodes and relationships, up whether *)
(* it can be reached.                                                      *)
(***************************************************************************)
RunStatement(stmt, N, R) ==
    IF stmt.kind = "traverse"
    THEN LET pat == ParsePattern(stmt.pattern)
         IN IF ~pat.ok
            THEN [ok |-> FALSE, rows |-> <<>>, error |-> "Neo4jError: Invalid input"]
            ELSE LET ps == MatchPaths(stmt.startNodeId, N, R, pat)
                 IN [ok |-> TRUE,
                     rows |-> Take([i \in 1..Len(ps) |-> TraverseRow(ps[i])], stmt.limit),
                     error |-> ""]
    ELSE LET scored == {[n |-> n, score |-> SumScores(n, stmt.searchTerm)] : n \in N}
             hits == {x \in scored :
                        /\ x.score > 0
                        /\ EvalWhere(stmt.where, x.n, x.score, stmt.context, stmt.minScore)}
         IN [ok |-> TRUE, rows |-> Take(SortByScoreDesc(hits), stmt.limit), error |-> ""]

executeQuery(stmt, N, R, up) ==
    IF ~up
    THEN [success |-> FALSE, data |-> <<>>, error |-> "Could not perform discovery"]
    ELSE LET r == RunStatement(stmt, N, R)
         IN IF r.ok THEN [success |-> TRUE, data |-> r.rows]
            ELSE [success |-> FALSE, data |-> <<>>, error |-> r.error]

(***************************************************************************)
(* The query cache (graphrag.ts 34-64).  An entry is [key, result,         *)
(* timestamp]; the Map holds at most one entry per key.                    *)
(***************************************************************************)
\* `${query}:${JSON.stringify(params)}`: the kind and the fields params holds
generateCacheKey(query, params) == <<query, params>>

Entry(cache, cacheKey) == CHOOSE e \in cache : e.key = cacheKey

\* The mutant of Fresh: the comparison admits an entry of age = timeout
FreshInclusive(cache, cacheKey, t) ==
    /\ \E e \in cache : e.key = cacheKey
    /\ t - Entry(cache, cacheKey).timestamp <= cacheTimeout

\* graphrag.ts 49-52: the entry exists and is younger than the timeout
Fresh(cache, cacheKey, t) ==
    /\ \E e \in cache : e.key = cacheKey
    /\ t - Entry(cache, cacheKey).timestamp < cacheTimeout

\* getCachedResult: the stored result when fresh; otherwise the key is deleted
\* and null returned.  [hit, result, cache]: cache is the Map afterwards.
getCachedResult(cache, cacheKey, t) ==
    IF Fresh(cache, cacheKey, t)
    THEN [hit |-> TRUE, result |-> Entry(cache, cacheKey).result, cache |-> cache]
    ELSE [hit |-> FALSE, result |-> [success |-> FALSE],
          cache |-> {e \in cache : e.key # cacheKey}]

\* The mutant of setCachedResult: an entry already there is kept
setCachedResultKeepFirst(cache, cacheKey, result, t) ==
    IF \E e \in cache : e.key = cacheKey THEN cache
    ELSE cache \cup {[key |-> cacheKey, result |-> result, timestamp |-> t]}

\* graphrag.ts 59-64: Map.set replaces the entry of the key
setCachedResult(cache, cacheKey, result, t) ==
    {e \in cache : e.key # cacheKey}
        \cup {[key |-> cacheKey, result |-> result, timestamp |-> t]}

(***************************************************************************)
(* traverseGraph (graphrag.ts 69-199).                                     *)
(***************************************************************************)
TraverseStatement(query) ==
    [kind |-> "traverse",
     pattern |-> BuildTraversePattern(Get(query, "relationshipTypes", <<>>),
                                      Get(query, "direction", "BOTH"),
                                      Get(query, "maxDepth", maxTraversalDepth)),
     startNodeId |-> ParseInt(query.startNodeId),
     limit |-> maxResults]

\* The mutant of DedupById: every occurrence is kept
DedupByIdKeepingAll(seq, seenIds) == seq

\* first occurrences by id, in order
RECURSIVE DedupById(_, _)
DedupById(seq, seenIds) ==
    IF seq = <<>> THEN <<>>
    ELSE IF Head(seq).id \in seenIds THEN DedupById(Tail(seq), seenIds)
         ELSE <<Head(seq)>> \o DedupById(Tail(seq), seenIds \cup {Head(seq).id})

RECURSIVE ConcatField(_, _)
ConcatField(rows, f) ==
    IF rows = <<>> THEN <<>> ELSE Head(rows)[f] \o ConcatField(Tail(rows), f)

\* The mutant of TraverseAfterQuery: the failure result is cached as well
TraverseAfterQueryCachingFailure(query, resp, startTime, cache, t) ==
    LET res == [success |-> FALSE, paths |-> <<>>, nodes |-> <<>>,
                relationships |-> <<>>, traversalDepth |-> 0, totalPaths |-> 0,
                executionTime |-> t - startTime, error |-> "Graph traversal failed"]
        ok == [success |-> TRUE,
               paths |-> [i \in 1..Len(resp.data) |-> resp.data[i].path],
               nodes |-> DedupById(ConcatField(resp.data, "pathNodes"), {}),
               relationships |-> DedupById(ConcatField(resp.data, "pathRels"), {}),
               traversalDepth |-> Get(query, "maxDepth", maxTraversalDepth),
               totalPaths |-> Len(resp.data),
               executionTime |-> t - startTime]
        out == IF resp.success THEN ok ELSE res
    IN [result |-> out,
        cache |-> setCachedResult(cache, generateCacheKey("traverse", query), out, t)]

\* The mutant of TraverseAfterQuery: an answer without rows is a failure
TraverseAfterQueryFailingOnEmpty(query, resp, startTime, cache, t) ==
    IF ~resp.success \/ resp.data = <<>>
    THEN [result |->
            [success |-> FALSE, paths |-> <<>>, nodes |-> <<>>,
             relationships |-> <<>>, traversalDepth |-> 0, totalPaths |-> 0,
             executionTime |-> t - startTime, error |-> "Graph traversal failed"],
          cache |-> cache]
    ELSE LET res ==
               [success |-> TRUE,
                paths |-> [i \in 1..Len(resp.data) |-> resp.data[i].path],
                nodes |-> DedupById(ConcatField(resp.data, "pathNodes"), {}),
                relationships |-> DedupById(ConcatField(resp.data, "pathRels"), {}),
                traversalDepth |-> Get(query, "maxDepth", maxTraversalDepth),
                totalPaths |-> Len(resp.data),
                executionTime |-> t - startTime]
         IN [result |-> res,
             cache |-> setCachedResult(cache, generateCacheKey("traverse", query), res, t)]

\* graphrag.ts 135-198: what traverseGraph does once executeQuery has
\* answered: [result, cache]
TraverseAfterQuery(query, resp, startTime, cache, t) ==
    IF ~resp.success
    THEN [result |->
            [success |-> FALSE, paths |-> <<>>, nodes |-> <<>>,
             relationships |-> <<>>, traversalDepth |-> 0, totalPaths |-> 0,
             executionTime |-> t - startTime,
             error |-> IF resp.error # "" THEN resp.error ELSE "Graph traversal failed"],
          cache |-> cache]
    ELSE LET res ==
               [success |-> TRUE,
                paths |-> [i \in 1..Len(resp.data) |-> resp.data[i].path],
                nodes |-> DedupById(ConcatField(resp.data, "pathNodes"), {}),
                relationships |-> DedupById(ConcatField(resp.data, "pathRels"), {}),
                traversalDepth |-> Get(query, "maxDepth", maxTraversalDepth),
                totalPaths |-> Len(resp.data),
                executionTime |-> t - startTime]
         IN [result |-> res,
             cache |-> setCachedResult(cache, generateCacheKey("traverse", query), res, t)]

(***************************************************************************)
(* semanticGraphSearch (graphrag.ts 204-291).                              *)
(***************************************************************************)
SemanticStatement(query) ==
    LET context == Get(query, "context", "")
        minScore == Get(query, "minScore", defaultMinScore)
    IN [kind |-> "semantic",
        where |-> BuildWhere(context, minScore),
        searchTerm |-> SearchTerm(query.concept, context),
        context |-> context,
        minScore |-> minScore,
        limit |-> Get(query, "maxResults", maxResults)]

\* graphrag.ts 256-290: what semanticGraphSearch does once executeQuery has
\* answered: [result, cache]
SemanticAfterQuery(query, resp, startTime, cache, t) ==
    IF ~resp.success
    THEN [result |->
            [success |-> FALSE, data |-> <<>>, totalResults |-> 0,
             executionTime |-> t - startTime,
             error |-> IF resp.error # "" THEN resp.error ELSE "Semantic search failed"],
          cache |-> cache]
    ELSE LET res ==
               [success |-> TRUE,
                data |-> [i \in 1..Len(resp.data) |->
                            IF Get(query, "includeScore", TRUE)
                            THEN [node |-> resp.data[i].node, score |-> resp.data[i].score]
                            ELSE [node |-> resp.data[i].node]],
                totalResults |-> Len(resp.data),
                executionTime |-> t - startTime]
         IN [result |-> res,
             cache |-> setCachedResult(cache, generateCacheKey("semantic", query), res, t)]

(***************************************************************************)
(* hybridSearch (graphrag.ts 296-412).  Item scores are weight * score, in *)
(* hundredths; the mean of the kept items is given as [sum, n].            *)
(***************************************************************************)
GraphBranchQuery(query, graphContext, maxRes) ==
    [concept |-> query, context |-> graphContext,
     maxResults |-> CeilTenth(maxRes * weightGraph)]

\* the value the graph branch settles with when includeGraph is false
SkippedGraphBranch == [success |-> TRUE, data |-> <<>>, totalResults |-> 0]
\* the value the vector branch settles with when includeVector is false
SkippedVectorBranch == [success |-> TRUE, data |-> <<>>]

\* Array.prototype.sort with (a, b) => b.combinedScore - a.combinedScore: stable
RECURSIVE InsertByScore(_, _)
InsertByScore(sorted, x) ==
    IF sorted = <<>> THEN <<x>>
    ELSE IF Head(sorted).combinedScore >= x.combinedScore
         THEN <<Head(sorted)>> \o InsertByScore(Tail(sorted), x)
         ELSE <<x>> \o sorted

\* The mutant of SortCombined: the pooled order is kept
SortCombinedKeepingOrder(items, acc) == acc \o items

RECURSIVE SortCombined(_, _)
SortCombined(items, acc) ==
    IF items = <<>> THEN acc
    ELSE SortCombined(Tail(items), InsertByScore(acc, Head(items)))

RECURSIVE SumCombined(_)
SumCombined(items) ==
    IF items = <<>> THEN 0 ELSE Head(items).combinedScore + SumCombined(Tail(items))

\* graphrag.ts 349-375: combinedResults, the pooled items of both branches
CombinedResults(graphResults, vectorResults) ==
    LET gItems == IF graphResults.success
                  THEN [i \in 1..Len(graphResults.data) |->
                          LET item == graphResults.data[i]
                              score == IF Has(item, "score") /\ item.score # 0
                                       THEN item.score ELSE 10 - (i - 1)
                          IN [source |-> "graph", combinedScore |-> score * weightGraph,
                              originalScore |-> score]]
                  ELSE <<>>
        vItems == IF vectorResults.success
                  THEN [i \in 1..Len(vectorResults.data) |->
                          [source |-> "vector",
                           combinedScore |-> (10 - (i - 1)) * weightVector,
                           originalScore |-> 10 - (i - 1)]]
                  ELSE <<>>
    IN gItems \o vItems

\* graphrag.ts 377-379: finalResults
FinalResults(graphResults, vectorResults, maxRes) ==
    Take(SortCombined(CombinedResults(graphResults, vectorResults), <<>>), maxRes)

\* graphrag.ts 348-395: after Promise.all has fulfilled with both results
HybridCombine(graphResults, vectorResults, maxRes) ==
    LET final == FinalResults(graphResults, vectorResults, maxRes)
    IN [graphResults |-> graphResults,
        vectorResults |-> vectorResults,
        combinedScore |-> [sum |-> SumCombined(final), n |-> Len(final)],
        explanation |-> [text |-> "Combined results from graph and vector searches",
                         n |-> Len(final)]]

\* graphrag.ts 396-411: Promise.all rejected, or building a branch threw
HybridCatch(message) ==
    [graphResults |-> [success |-> FALSE, data |-> <<>>, totalResults |-> 0,
                       executionTime |-> 0],
     vectorResults |-> [success |-> FALSE, data |-> <<>>],
     combinedScore |-> [sum |-> 0, n |-> 0],
     explanation |-> [text |-> "Search failed", n |-> 0, message |-> message]]

(***************************************************************************)
(* generateGraphRAGContext (graphrag.ts 417-531).  An insight, a reasoning *)
(* step and a line of the answer are [s, n, vals]: the fixed text, the     *)
(* number and the names it carries.                                        *)
(***************************************************************************)
Line(s, n, vals) == [s |-> s, n |-> n, vals |-> vals]

ContextSemanticQuery(query) == [concept |-> query, maxResults |-> contextMaxResults]

DefaultRelationshipTypes ==
    <<"RELATED_TO", "ASSOCIATED_WITH", "PART_OF", "CELEBRATED_IN">>

ContextTraversalQuery(startNode, maxDepth) ==
    [startNodeId |-> startNode.id, maxDepth |-> maxDepth,
     relationshipTypes |-> DefaultRelationshipTypes]

\* The mutant of EmptyContext: the empty context carries a relevance
EmptyContextHalfRelevant(query) ==
    [nodes |-> <<>>, relationships |-> <<>>, paths |-> <<>>,
     insights |-> <<Line("No relevant entities found in the graph", 0, <<>>)>>,
     relevanceScore |-> 5, graphQuery |-> query]

\* graphrag.ts 438-447
EmptyContext(query) ==
    [nodes |-> <<>>, relationships |-> <<>>, paths |-> <<>>,
     insights |-> <<Line("No relevant entities found in the graph", 0, <<>>)>>,
     relevanceScore |-> 0, graphQuery |-> query]

\* [...new Set(values)].filter(Boolean), in first-occurrence order
RECURSIVE Distinct(_, _)
Distinct(seq, seen) ==
    IF seq = <<>> THEN <<>>
    ELSE IF Head(seq) \in seen \/ Head(seq) = "" THEN Distinct(Tail(seq), seen)
         ELSE <<Head(seq)>> \o Distinct(Tail(seq), seen \cup {Head(seq)})

\* The mutant of RelevanceScore: the sum is not clamped
RelevanceScoreUnclamped(nNodes, nRelationships, nPaths) ==
    nNodes * 2 + nRelationships * 3 + nPaths * 1

\* graphrag.ts 500-506, in tenths
RelevanceScore(nNodes, nRelationships, nPaths) ==
    Min(nNodes * 2 + nRelationships * 3 + nPaths * 1, 10)

\* graphrag.ts 449-515: the semantic search found entities; traversal is the
\* traversal's result when one was run
BuildContext(query, startNode, ranTraversal, traversal, includeInsights) ==
    LET took == ranTraversal /\ traversal.success
        allNodes == <<startNode>> \o (IF took THEN traversal.nodes ELSE <<>>)
        allRelationships == IF took THEN traversal.relationships ELSE <<>>
        allPaths == IF took THEN traversal.paths ELSE <<>>
        regions == Distinct([i \in 1..Len(allNodes) |-> allNodes[i].region], {})
        types == Distinct([i \in 1..Len(allNodes) |-> allNodes[i].type], {})
        counts == << Line("Found related cultural entities", Len(allNodes), <<>>),
                     Line("Discovered relationships", Len(allRelationships), <<>>),
                     Line("Explored connection paths", Len(allPaths), <<>>) >>
        cross == (IF Len(allNodes) > 1 /\ Len(regions) > 1
                  THEN <<Line("Connected across regions", Len(regions), regions)>>
                  ELSE <<>>)
                 \o (IF Len(allNodes) > 1 /\ Len(types) > 1
                     THEN <<Line("Spans multiple cultural domains", Len(types), types)>>
                     ELSE <<>>)
    IN [nodes |-> allNodes,
        relationships |-> allRelationships,
        paths |-> allPaths,
        insights |-> IF includeInsights THEN counts \o cross ELSE <<>>,
        relevanceScore |-> RelevanceScore(Len(allNodes), Len(allRelationships), Len(allPaths)),
        graphQuery |-> query]

(***************************************************************************)
(* generateContextualAnswer (graphrag.ts 653-743).                         *)
(***************************************************************************)
NotFoundMessage ==
    <<Line("I couldn't find specific information about that in my cultural knowledge graph. Could you please rephrase your question or be more specific?", 0, <<>>)>>
ApologyMessage ==
    <<Line("I apologize, but I encountered an error while processing your question.", 0, <<>>)>>

\* graphrag.ts 723-743: the display text of the type map; a type the map
\* lacks is shown in lower case with spaces for underscores
formatRelationshipType(type) ==
    CASE type = "CELEBRATED_IN" -> "Celebrated in"
      [] type = "WORSHIPS" -> "Associated with deity"
      [] type = "ORIGINATED_FROM" -> "Originated from"
      [] type = "INFLUENCED_BY" -> "Influenced by"
      [] type = "PART_OF" -> "Part of"
      [] type = "RELATED_TO" -> "Related to"
      [] type = "PRACTICED_BY" -> "Practiced by"
      [] type = "ASSOCIATED_WITH" -> "Associated with"
      [] type = "SPEAKS" -> "Language spoken"
      [] type = "CREATED_BY" -> "Created by"
      [] type = "PERFORMED_DURING" -> "Performed during"
      [] type = "FOLLOWS" -> "Follows tradition"
      [] type = "CONNECTED_TO" -> "Connected to"
      [] type = "VARIANT_OF" -> "Variant of"
      [] type = "EVOLVED_INTO" -> "Evolved into"
      [] OTHER -> <<"lower case, spaced", type>>

\* groupRelationshipsByType: the types in first-occurrence order
RelTypesInOrder(relationships) ==
    Distinct([i \in 1..Len(relationships) |-> relationships[i].type], {})

\* graphrag.ts 676-683: for each relationship of the type, the name of the
\* first context node that is one of its endpoints
RelatedNames(ctxNodes, relationships, type) ==
    LET ofType == SelectSeq(relationships, LAMBDA r : r.type = type)
        known == SelectSeq(ofType, LAMBDA r :
                    \E i \in 1..Len(ctxNodes) :
                        ctxNodes[i].id = r.endNodeId \/ ctxNodes[i].id = r.startNodeId)
    IN [k \in 1..Len(known) |->
          LET i == CHOOSE j \in 1..Len(ctxNodes) :
                       /\ ctxNodes[j].id = known[k].endNodeId
                            \/ ctxNodes[j].id = known[k].startNodeId
                       /\ \A m \in 1..(j - 1) :
                            /\ ctxNodes[m].id # known[k].endNodeId
                            /\ ctxNodes[m].id # known[k].startNodeId
          IN ctxNodes[i].name]

generateContextualAnswer(question, context) ==
    IF Len(context.nodes) = 0 THEN NotFoundMessage
    ELSE LET mainEntity == context.nodes[1]
             types == RelTypesInOrder(context.relationships)
             groups == [i \in 1..Len(types) |->
                          Line(formatRelationshipType(types[i]), 0,
                               RelatedNames(context.nodes, context.relationships, types[i]))]
         IN <<Line("Based on my cultural knowledge graph, here's what I found about",
                   0, <<mainEntity.name>>)>>
            \o (IF mainEntity.description # ""
                THEN <<Line(mainEntity.description, 0, <<>>)>> ELSE <<>>)
            \o (IF Len(context.relationships) > 0
                THEN <<Line("**Cultural Connections:**", 0, <<>>)>>
                     \o SelectSeq(groups, LAMBDA g : Len(g.vals) > 0)
                ELSE <<>>)
            \o (IF Len(context.insights) > 0
                THEN <<Line("**Additional Insights:**", 0, <<>>)>> \o context.insights
                ELSE <<>>)

(***************************************************************************)
(* graphRAGQuery (graphrag.ts 536-648): the response built once the hybrid *)
(* search and the context are there.                                       *)
(***************************************************************************)
\* The mutant of Confidence: the floor is left out
ConfidenceNoFloor(relevanceScore) == relevanceScore

\* graphrag.ts 622: Math.max(graphContext.relevanceScore, 0.5)
Confidence(relevanceScore) == Max(relevanceScore, confidenceFloor)

\* graphrag.ts 586-607: the sources of a response
GraphSource(graphContext) ==
    [type |-> "graph", nodes |-> graphContext.nodes,
     relationships |-> graphContext.relationships,
     relevance |-> graphContext.relevanceScore]
VectorSource(vectorResults) ==
    [type |-> "vector",
     nodes |-> [i \in 1..Len(vectorResults.data) |->
                  [id |-> vectorResults.data[i].id,
                   labels |-> <<"VectorResult">>,
                   properties |-> vectorResults.data[i]]],
     relationships |-> <<>>,
     relevance |-> vectorRelevance]

\* The mutant of Sources: the vector source does not depend on includeVector
SourcesWheneverVectorSucceeded(includeVector, hybridResults, graphContext) ==
    <<GraphSource(graphContext)>>
    \o (IF hybridResults.vectorResults.success
        THEN <<VectorSource(hybridResults.vectorResults)>> ELSE <<>>)

Sources(includeVector, hybridResults, graphContext) ==
    <<GraphSource(graphContext)>>
    \o (IF includeVector /\ hybridResults.vectorResults.success
        THEN <<VectorSource(hybridResults.vectorResults)>> ELSE <<>>)

RagResponse(question, includeVector, generateReasoning, hybridResults, graphContext, startTime, t) ==
    LET vecOk == hybridResults.vectorResults.success
        reasoning ==
            IF generateReasoning
            THEN << Line("1. Searched for entities related to", 0, <<question>>),
                    Line("2. Found relevant cultural entities", Len(graphContext.nodes), <<>>),
                    Line("3. Explored relationships", Len(graphContext.relationships), <<>>),
                    Line("4. Generated insights from connection paths",
                         Len(graphContext.paths), <<>>) >>
                 \o (IF vecOk
                     THEN <<Line("5. Enhanced with vector search results", 0, <<>>)>>
                     ELSE <<>>)
            ELSE <<>>
        sources == Sources(includeVector, hybridResults, graphContext)
    IN [success |-> TRUE,
        answer |-> generateContextualAnswer(question, graphContext),
        context |-> graphContext,
        sources |-> sources,
        reasoning |-> reasoning,
        confidence |-> Confidence(graphContext.relevanceScore),
        executionTime |-> t - startTime]

(***************************************************************************)
(* searchCulturalKnowledge (weaviate.ts 207-282): the hybrid query, the    *)
(* BM25 fallback when it throws, {success: false} when that throws too.    *)
(***************************************************************************)
VectorItem == [id |-> "v1", title |-> "Diwali", content |-> "Festival of lights"]
VectorStoreStates == {"up", "hybridDown", "down"}
searchCulturalKnowledge(vs) ==
    IF vs = "up" \/ vs = "hybridDown"
    THEN [success |-> TRUE, data |-> <<VectorItem>>]
    ELSE [success |-> FALSE, data |-> <<>>, error |-> "Weaviate unreachable"]

(***************************************************************************)
(* The calls.  A call of traverseGraph or semanticGraphSearch runs in two  *)
(* steps: up to its await of executeQuery (the cache lookup), and from the *)
(* store's answer on.  hybridSearch and graphRAGQuery run such searches as *)
(* parts: g is the graph branch of hybridSearch, s the search a direct     *)
(* call or generateGraphRAGContext is waiting for, v the vector branch.    *)
(***************************************************************************)
Calls == 1..NCalls
None == [none |-> TRUE]
NoSub == [st |-> "none"]

IdleCall ==
    [pc |-> "idle", kind |-> "", args |-> None, startTime |-> 0, doneAt |-> 0,
     issued |-> 0, hits |-> 0, failed |-> 0, seen |-> {},
     found |-> None, prior |-> None,
     g |-> NoSub, s |-> NoSub, v |-> NoSub, hyb |-> None, sem |-> None,
     ctx |-> None, result |-> None]

TraverseInputs ==
    { [startNodeId |-> "1"],
      [startNodeId |-> "1", maxDepth |-> 1] }
SemanticInputs ==
    { [concept |-> "Lakshmi"],
      [concept |-> "Lakshmi", context |-> "India"] }
Questions == {"Tell me about Diwali", "nonexistent concept xyz123"}

\* call ids are handed out in order
CanStart(c) ==
    /\ started < MaxStarted
    /\ calls[c].pc = "idle"
    /\ IF c = 1 THEN TRUE ELSE calls[c - 1].pc # "idle"
DoneCalls == {c \in Calls : calls[c].pc = "done"}
Direct(c) == calls[c].kind \in {"traverse", "semantic"}

\* The synchronous head of traverseGraph / semanticGraphSearch (graphrag.ts
\* 72-79, 207-214): the cache lookup; on a miss executeQuery is issued.
BeginSearch(kind, query) ==
    LET lk == getCachedResult(queryCache, generateCacheKey(kind, query), now)
    IN [sub |-> IF lk.hit
                THEN [st |-> "done", kind |-> kind, query |-> query,
                      startTime |-> now, result |-> lk.result]
                ELSE [st |-> "pending", kind |-> kind, query |-> query,
                      startTime |-> now],
        cache |-> lk.cache,
        issued |-> IF lk.hit THEN 0 ELSE 1,
        hits |-> IF lk.hit THEN 1 ELSE 0]

\* What a call meets when it starts: the cache entry of its key, and the
\* last successful store answer for its key
FoundOf(kind, query) ==
    LET k == generateCacheKey(kind, query)
    IN IF \E e \in queryCache : e.key = k
       THEN [has |-> TRUE, result |-> Entry(queryCache, k).result,
             timestamp |-> Entry(queryCache, k).timestamp]
       ELSE [has |-> FALSE]

PriorOf(kind, query) ==
    LET k == generateCacheKey(kind, query)
    IN IF \E e \in lastOk : e.key = k
       THEN [has |-> TRUE, result |-> (CHOOSE e \in lastOk : e.key = k).result,
             at |-> (CHOOSE e \in lastOk : e.key = k).at]
       ELSE [has |-> FALSE]

CallDirect(c, kind, query) ==
    /\ CanStart(c)
    /\ LET b == BeginSearch(kind, query)
       IN /\ calls' = [calls EXCEPT ![c] =
                [IdleCall EXCEPT
                    !.pc = IF b.sub.st = "done" THEN "done" ELSE "search",
                    !.kind = kind, !.args = query, !.startTime = now,
                    !.doneAt = now, !.issued = b.issued, !.hits = b.hits,
                    !.seen = DoneCalls, !.found = FoundOf(kind, query),
                    !.prior = PriorOf(kind, query), !.s = b.sub,
                    !.result = IF b.sub.st = "done" THEN b.sub.result ELSE None]]
          /\ queryCache' = b.cache
    /\ started' = started + 1
    /\ UNCHANGED <<now, ticks, connected, nodes, rels, lastOk>>
    /\ UNCHANGED mgmt

CallTraverse(c) == \E q \in TraverseInputs : CallDirect(c, "traverse", q)
CallSemantic(c) == \E q \in SemanticInputs : CallDirect(c, "semantic", q)

\* hybridSearch up to its await of Promise.all (graphrag.ts 306-346), called
\* directly (kind "hybrid") or as the first step of graphRAGQuery (kind "rag")
CallHybridOrRag(c, kind, query, includeVector) ==
    /\ CanStart(c)
    /\ LET b == BeginSearch("semantic", GraphBranchQuery(query, "", maxResults))
       IN /\ calls' = [calls EXCEPT ![c] =
                [IdleCall EXCEPT
                    !.pc = "hybrid", !.kind = kind,
                    !.args = [query |-> query, includeVector |-> includeVector],
                    !.startTime = now, !.issued = b.issued, !.hits = b.hits,
                    !.seen = DoneCalls, !.g = b.sub,
                    !.v = IF includeVector THEN [st |-> "pending"]
                          ELSE [st |-> "done", result |-> SkippedVectorBranch]]]
          /\ queryCache' = b.cache
    /\ started' = started + 1
    /\ UNCHANGED <<now, ticks, connected, nodes, rels, lastOk>>
    /\ UNCHANGED mgmt

CallHybrid(c) ==
    \E q \in Questions, iv \in BOOLEAN : CallHybridOrRag(c, "hybrid", q, iv)
CallRag(c) ==
    \E q \in Questions, iv \in BOOLEAN : CallHybridOrRag(c, "rag", q, iv)

\* The store answers the statement of a pending search and the search runs
\* to its end (graphrag.ts 130-198, 249-290).
AfterQuery(sub, resp) ==
    IF sub.kind = "traverse"
    THEN TraverseAfterQuery(sub.query, resp, sub.startTime, queryCache, now)
    ELSE SemanticAfterQuery(sub.query, resp, sub.startTime, queryCache, now)

StoreAnswers(c, slot) ==
    /\ calls[c][slot].st = "pending"
    /\ LET sub == calls[c][slot]
           stmt == IF sub.kind = "traverse" THEN TraverseStatement(sub.query)
                   ELSE SemanticStatement(sub.query)
           resp == executeQuery(stmt, nodes, rels, connected)
           out == AfterQuery(sub, resp)
           k == generateCacheKey(sub.kind, sub.query)
           done == [st |-> "done", kind |-> sub.kind, query |-> sub.query,
                    startTime |-> sub.startTime, result |-> out.result]
       IN /\ queryCache' = out.cache
          /\ lastOk' = IF resp.success
                       THEN {e \in lastOk : e.key # k}
                              \cup {[key |-> k, result |-> out.result, at |-> now]}
                       ELSE lastOk
          /\ calls' = [calls EXCEPT ![c] =
                IF slot = "s" /\ Direct(c)
                THEN [@ EXCEPT !.s = done, !.pc = "done", !.doneAt = now,
                               !.failed = @ + (IF resp.success THEN 0 ELSE 1),
                               !.result = out.result]
                ELSE [@ EXCEPT ![slot] = done,
                               !.failed = @ + (IF resp.success THEN 0 ELSE 1)]]
    /\ UNCHANGED <<now, ticks, connected, nodes, rels, started>>
    /\ UNCHANGED mgmt

\* The vector branch's promise fulfils with searchCulturalKnowledge's value
VectorAnswers(c) ==
    /\ calls[c].pc = "hybrid"
    /\ calls[c].v.st = "pending"
    /\ \E vs \in VectorStoreStates :
          calls' = [calls EXCEPT ![c].v =
                       [st |-> "done", result |-> searchCulturalKnowledge(vs)]]
    /\ UNCHANGED <<now, ticks, connected, nodes, rels, queryCache, lastOk, started>>
    /\ UNCHANGED mgmt

\* The vector branch's promise rejects
VectorRejects(c) ==
    /\ calls[c].pc = "hybrid"
    /\ calls[c].v.st = "pending"
    /\ calls' = [calls EXCEPT ![c].v =
                    [st |-> "rejected", message |-> "vector search threw"]]
    /\ UNCHANGED <<now, ticks, connected, nodes, rels, queryCache, lastOk, started>>
    /\ UNCHANGED mgmt

\* graphrag.ts 346-411: Promise.all settles -- fulfilled once both branches
\* have, rejected as soon as one has -- and hybridSearch returns
HybridResult(call) ==
    IF call.v.st = "rejected" THEN HybridCatch(call.v.message)
    ELSE HybridCombine(call.g.result, call.v.result, maxResults)

HybridJoin(c) ==
    /\ calls[c].pc = "hybrid"
    /\ \/ calls[c].v.st = "rejected"
       \/ calls[c].v.st = "done" /\ calls[c].g.st = "done"
    /\ LET call == calls[c]
       IN calls' = [calls EXCEPT ![c] =
             IF call.kind = "hybrid"
             THEN [call EXCEPT !.pc = "done", !.doneAt = now,
                               !.result = HybridResult(call)]
             ELSE [call EXCEPT !.pc = "context", !.hyb = HybridResult(call)]]
    /\ UNCHANGED <<now, ticks, connected, nodes, rels, queryCache, lastOk, started>>
    /\ UNCHANGED mgmt

\* generateGraphRAGContext up to its await of semanticGraphSearch (431-436)
ContextStart(c) ==
    /\ calls[c].pc = "context"
    /\ LET b == BeginSearch("semantic", ContextSemanticQuery(calls[c].args.query))
       IN /\ calls' = [calls EXCEPT ![c] =
                [@ EXCEPT !.pc = "ctxSem", !.s = b.sub, !.issued = @ + b.issued,
                          !.hits = @ + b.hits]]
          /\ queryCache' = b.cache
    /\ UNCHANGED <<now, ticks, connected, nodes, rels, lastOk, started>>
    /\ UNCHANGED mgmt

\* generateGraphRAGContext from the semantic results to its await of
\* traverseGraph (438-467), or to its return when nothing was found
ContextSeed(c) ==
    /\ calls[c].pc = "ctxSem"
    /\ calls[c].s.st = "done"
    /\ LET sem == calls[c].s.result
       IN IF ~sem.success \/ Len(sem.data) = 0
          THEN /\ calls' = [calls EXCEPT ![c] =
                     [@ EXCEPT !.pc = "respond", !.s = NoSub, !.sem = sem,
                               !.ctx = EmptyContext(calls[c].args.query)]]
               /\ UNCHANGED queryCache
          ELSE LET startNode == sem.data[1].node
                   b == BeginSearch("traverse",
                                    ContextTraversalQuery(startNode, reasoningDepth))
               IN /\ calls' = [calls EXCEPT ![c] =
                        [@ EXCEPT !.pc = "ctxTrav", !.s = b.sub, !.sem = sem,
                                  !.issued = @ + b.issued, !.hits = @ + b.hits,
                                  !.ctx = [startNode |-> startNode]]]
                  /\ queryCache' = b.cache
    /\ UNCHANGED <<now, ticks, connected, nodes, rels, lastOk, started>>
    /\ UNCHANGED mgmt

\* generateGraphRAGContext returns and graphRAGQuery builds its response
\* (graphrag.ts 469-515, 567-624)
RagRespond(c) ==
    /\ \/ calls[c].pc = "respond"
       \/ calls[c].pc = "ctxTrav" /\ calls[c].s.st = "done"
    /\ LET call == calls[c]
           ctx == IF call.pc = "respond" THEN call.ctx
                  ELSE BuildContext(call.args.query, call.ctx.startNode, TRUE,
                                    call.s.result, TRUE)
       IN calls' = [calls EXCEPT ![c] =
             [@ EXCEPT !.pc = "done", !.doneAt = now, !.s = NoSub, !.ctx = ctx,
                       !.result = RagResponse(call.args.query, call.args.includeVector,
                                              TRUE, call.hyb, ctx, call.startTime, now)]]
    /\ UNCHANGED <<now, ticks, connected, nodes, rels, queryCache, lastOk, started>>
    /\ UNCHANGED mgmt

\* The caller takes the value of a settled call; the slot is free for the
\* next call.  A store query that is still in flight keeps its slot.
Return(c) ==
    /\ started < MaxStarted
    /\ calls[c].pc = "done"
    /\ calls[c].g.st # "pending"
    /\ calls' = [d \in Calls |->
                    IF d = c THEN IdleCall
                    ELSE [calls[d] EXCEPT !.seen = @ \ {c}]]
    /\ UNCHANGED <<now, ticks, connected, nodes, rels, queryCache, lastOk, started>>
    /\ UNCHANGED mgmt

(***************************************************************************)
(* The environment: the clock (which reads 0, then just under the cache    *)
(* timeout, then the timeout, ...), the store's availability, and          *)
(* clearGraphData (neo4j.ts 520-534), which deletes every node and         *)
(* relationship when the store answers.                                    *)
(***************************************************************************)
Tick ==
    /\ ticks < MaxTicks
    \* the store answers a query within the tick it was issued in
    /\ \A c \in Calls : calls[c].g.st # "pending" /\ calls[c].s.st # "pending"
    /\ now' = now + (IF ticks % 2 = 0 THEN cacheTimeout - 1 ELSE 1)
    /\ ticks' = ticks + 1
    /\ UNCHANGED <<connected, nodes, rels, queryCache, calls, lastOk, started>>
    /\ UNCHANGED mgmt

Disconnect ==
    /\ connected
    /\ connected' = FALSE
    /\ UNCHANGED <<now, ticks, nodes, rels, queryCache, calls, lastOk, started>>
    /\ UNCHANGED mgmt

Reconnect ==
    /\ ~connected
    /\ connected' = TRUE
    /\ UNCHANGED <<now, ticks, nodes, rels, queryCache, calls, lastOk, started>>
    /\ UNCHANGED mgmt

clearGraphData ==
    /\ nodes # {}
    /\ IF connected THEN nodes' = {} /\ rels' = {} ELSE UNCHANGED <<nodes, rels>>
    /\ UNCHANGED <<now, ticks, connected, queryCache, calls, lastOk, started>>
    /\ UNCHANGED mgmt

(***************************************************************************)
(* The management side: the CulturalEntity nodes written by                *)
(* culturalData.ts, and the routes that reach them.  A node is [name,      *)
(* description]; the store keeps them in creation order.                   *)
(***************************************************************************)
\* CulturalEntity nodes the add_entity route may bring the store to
MaxEntities == 3

\* JavaScript values of a request body, tagged by type
Undefined == [t |-> "undefined"]
Bool(b) == [t |-> "boolean", b |-> b]
Str(s) == [t |-> "string", s |-> s]
Num(n) == [t |-> "number", n |-> n]
\* The mutant of Truthy: any value that is present counts
TruthyWhenPresent(v) == v.t # "undefined"

\* !v is false
Truthy(v) ==
    CASE v.t = "undefined" -> FALSE
      [] v.t = "boolean" -> v.b
      [] v.t = "string" -> v.s # ""
      [] v.t = "number" -> v.n # 0
\* body.f of a parsed body
Field(body, f) == IF f \in DOMAIN body THEN body[f] ELSE Undefined

\* the head of CULTURAL_ENTITIES (culturalData.ts 5-253)
CULTURAL_ENTITIES ==
    << [name |-> "Diwali", type |-> "Festival", description |-> "Festival of Lights"],
       [name |-> "Holi", type |-> "Festival", description |-> "Festival of Colors"] >>

NameCount(E, name) == Cardinality({i \in 1..Len(E) : E[i].name = name})
DescriptionsOf(E, name) == {E[i].description : i \in {j \in 1..Len(E) : E[j].name = name}}

\* MERGE (c:CulturalEntity {name: $name}) SET c.description = $description, ...
\* RETURN c.name as name (culturalData.ts 311-326): every node of that name
\* is bound and set; when there is none, one is created.  One row per node.
MergeEntity(E, e) ==
    IF NameCount(E, e.name) = 0
    THEN [entities |-> Append(E, [name |-> e.name, description |-> e.description]),
          rows |-> <<e.name>>]
    ELSE [entities |-> [i \in 1..Len(E) |->
                          IF E[i].name = e.name
                          THEN [E[i] EXCEPT !.description = e.description]
                          ELSE E[i]],
          rows |-> [k \in 1..NameCount(E, e.name) |-> e.name]]

\* CREATE (c:CulturalEntity {name: $name, ...}) RETURN c.name as name
\* (culturalData.ts 522-540): a node is created whatever the store holds,
\* unless the constraint cultural_entity_name (neo4j.ts 482) rejects it.
CreateEntity(E, e, unique) ==
    IF unique /\ NameCount(E, e.name) > 0
    THEN [ok |-> FALSE, entities |-> E,
          error |-> "Node already exists with label CulturalEntity and property name"]
    ELSE [ok |-> TRUE,
          entities |-> Append(E, [name |-> e.name, description |-> e.description]),
          error |-> ""]

\* neo4j.ts 190-253 executeTransaction on the one statement of
\* addCulturalEntity: a store that cannot be reached makes executeWrite
\* reject, and the catch returns one failed result; a statement the store
\* rejects is recorded as a failed result.
executeTransactionCreate(E, e, unique, up) ==
    IF ~up
    THEN [results |-> <<[success |-> FALSE, error |-> "Could not perform discovery"]>>,
          entities |-> E]
    ELSE LET r == CreateEntity(E, e, unique)
         IN [results |-> <<[success |-> r.ok, error |-> r.error]>>, entities |-> r.entities]

\* culturalData.ts 511-574
addCulturalEntity(E, e, unique, up) ==
    LET t == executeTransactionCreate(E, e, unique, up)
    IN IF t.results[1].success
       THEN [success |-> TRUE, entities |-> t.entities]
       ELSE [success |-> FALSE, entities |-> t.entities,
             error |-> IF t.results[1].error # "" THEN t.results[1].error
                       ELSE "Failed to add entity"]

(***************************************************************************)
(* createCulturalEntities (culturalData.ts 297-397), one entity per step;  *)
(* the store may come and go between two upserts.  outcomes is the store's *)
(* answer to each upsert so far.                                           *)
(***************************************************************************)
IdleBulk == [pc |-> "idle", i |-> 0, successCount |-> 0, errors |-> <<>>, outcomes |-> <<>>, result |-> None]

\* errors.join("; ") behind a prefix
ErrorText(prefix, errors) == [prefix |-> prefix, items |-> errors, separator |-> "; "]

\* The mutant of BulkResult: any failed upsert fails the whole call
BulkResultAllOrNothing(successCount, errors) ==
    IF errors # <<>>
    THEN [success |-> FALSE, created |-> 0,
          error |-> ErrorText("Failed to create any entities. Errors: ", errors)]
    ELSE [success |-> TRUE, created |-> successCount]

\* culturalData.ts 375-389: the value returned after the loop
BulkResult(successCount, errors) ==
    IF successCount = 0
    THEN [success |-> FALSE, created |-> 0,
          error |-> ErrorText("Failed to create any entities. Errors: ", errors)]
    ELSE IF errors # <<>>
         THEN [success |-> TRUE, created |-> successCount,
               error |-> ErrorText("Partial success. Errors: ", errors)]
         ELSE [success |-> TRUE, created |-> successCount]

BulkStart ==
    /\ bulk.pc # "run"
    /\ bulk' = [IdleBulk EXCEPT !.pc = "run", !.i = 1]
    /\ UNCHANGED <<entities, uniqueName, lastRequest, driver, probe>>
    /\ UNCHANGED engine
    /\ UNCHANGED gateway

\* culturalData.ts 309-373: the upsert of entity i and the bookkeeping after
\* it; after the lastRequest entity the function returns
BulkUpsert ==
    /\ bulk.pc = "run"
    /\ LET e == CULTURAL_ENTITIES[bulk.i]
           m == MergeEntity(entities, e)
           ok == connected /\ Len(m.rows) > 0
           count == bulk.successCount + (IF ok THEN 1 ELSE 0)
           errs == IF ok THEN bulk.errors
                   ELSE Append(bulk.errors,
                               <<"Failed to create ", e.name, ": ", "Could not perform discovery">>)
           final == bulk.i = Len(CULTURAL_ENTITIES)
       IN /\ entities' = IF connected THEN m.entities ELSE entities
          /\ bulk' = [pc |-> IF final THEN "done" ELSE "run",
                      i |-> IF final THEN bulk.i ELSE bulk.i + 1,
                      successCount |-> count,
                      errors |-> errs,
                      outcomes |-> Append(bulk.outcomes, connected),
                      result |-> IF final THEN BulkResult(count, errs) ELSE None]
    /\ UNCHANGED <<uniqueName, lastRequest, driver, probe>>
    /\ UNCHANGED engine
    /\ UNCHANGED gateway

(***************************************************************************)
(* The statements the routes send to the store, by their leading clause.   *)
(***************************************************************************)
ConnectionCheck == <<"CALL dbms.components()">>
MetricsStatements == <<"MATCH (n) RETURN count(n)", "MATCH ()-[r]->() RETURN count(r)", "MATCH (n) RETURN labels(n)", "MATCH ()-[r]->() RETURN type(r)">>
SchemaReadStatements == <<"CALL db.labels()", "CALL db.relationshipTypes()", "SHOW CONSTRAINTS", "SHOW INDEXES">>
SchemaStatements == <<"CREATE CONSTRAINT cultural_entity_name", "CREATE FULLTEXT INDEX cultural_search">>
DeleteStatement == "MATCH (n) DETACH DELETE n"
CreateStatement == "CREATE (c:CulturalEntity)"
TraverseText == "MATCH path = (start)-[...]-(connected)"

Response(status, body) == [status |-> status, body |-> body]
NoRequest == [route |-> "none"]

\* neo4j.ts 413-470 getGraphMetrics: totalNodes, 0 when the count cannot be read
TotalNodes(up) == IF up THEN Cardinality(nodes) + Len(entities) ELSE 0

(***************************************************************************)
(* POST of the graph initialisation route (part_008 11-65) with            *)
(* handleAddEntity (169-225).  The request is the parsed body; lost tells  *)
(* whether the store becomes unreachable after the connection check.       *)
(***************************************************************************)
RequiredFields == <<"name", "type", "description">>
\* requiredFields.filter((field) => !entityData[field])
MissingFields(entityData) == SelectSeq(RequiredFields, LAMBDA f : ~Truthy(Field(entityData, f)))

EntityInputs ==
    { [name |-> Str("Diwali"), type |-> Str("Festival"), description |-> Str("Festival of Lights")],
      [name |-> Str("Diwali"), type |-> Str("Festival"), description |-> Str("Deepavali")],
      [name |-> Str("Ugadi"), type |-> Str("Festival"), description |-> Str("New year")],
      [type |-> Str("Festival"), description |-> Str("New year")],
      [name |-> Str("Ugadi"), description |-> Str("New year")],
      [name |-> Str("Ugadi"), type |-> Str("Festival"), description |-> Str("")] }

GraphInitRequests ==
    {[action |-> "add_entity", entity |-> e] : e \in EntityInputs}
        \cup {[action |-> "add_entity"], [action |-> "remove_entity"]}

handleAddEntity(req, up) ==
    LET missing == MissingFields(req.entity)
        e == [name |-> req.entity.name.s, description |-> req.entity.description.s]
        r == addCulturalEntity(entities, e, uniqueName, up)
    IN IF missing # <<>>
       THEN [statements |-> <<>>, entities |-> entities,
             response |-> Response(400, [success |-> FALSE, error |-> "Missing required fields",
                                         missingFields |-> missing])]
       ELSE IF ~r.success
       THEN [statements |-> <<CreateStatement>>, entities |-> r.entities,
             response |-> Response(500, [success |-> FALSE, error |-> "Failed to add cultural entity",
                                         details |-> r.error])]
       ELSE [statements |-> <<CreateStatement>>, entities |-> r.entities,
             response |-> Response(200, [success |-> TRUE, entity |-> e])]

PostGraphInit(req, lost) ==
    /\ Len(entities) < MaxEntities
    /\ IF ~connected
       THEN /\ lastRequest' = [route |-> "graph/init", req |-> req, statements |-> ConnectionCheck,
                        response |-> Response(503, [success |-> FALSE,
                                                    error |-> "Neo4j database is not connected"])]
            /\ UNCHANGED <<entities, connected>>
       ELSE /\ connected' = ~lost
            /\ IF req.action = "add_entity"
               THEN IF ~Has(req, "entity")
                    THEN /\ lastRequest' = [route |-> "graph/init", req |-> req, statements |-> ConnectionCheck,
                                     response |-> Response(400, [success |-> FALSE,
                                        error |-> "Entity data is required for add_entity action"])]
                         /\ UNCHANGED entities
                    ELSE LET h == handleAddEntity(req, ~lost)
                         IN /\ lastRequest' = [route |-> "graph/init", req |-> req,
                                        statements |-> ConnectionCheck \o h.statements,
                                        response |-> h.response]
                            /\ entities' = h.entities
               ELSE /\ lastRequest' = [route |-> "graph/init", req |-> req, statements |-> ConnectionCheck,
                                response |-> Response(400, [success |-> FALSE,
                                   error |-> "Invalid action. Supported actions: initialize, add_entity"])]
                    /\ UNCHANGED entities
    /\ UNCHANGED <<uniqueName, bulk, driver, probe>>
    /\ UNCHANGED <<now, ticks, nodes, rels, queryCache, calls, lastOk, started>>
    /\ UNCHANGED gateway

(***************************************************************************)
(* POST of the store management route (part_009 58-105) with its handlers  *)
(* (107-163 handleInitializeSchema, 165-219 handleClearData, 221-259).     *)
(***************************************************************************)
ConfirmValues == {Undefined, Bool(FALSE), Bool(TRUE), Str(""), Str("false"), Num(0), Num(1)}

ManageRequests ==
    {[action |-> "clear", confirm |-> v] : v \in ConfirmValues \ {Undefined}}
        \cup {[action |-> a] : a \in {"clear", "initialize", "metrics", "schema", "status"}}

\* neo4j.ts 475-515 initializeGraphSchema on the store: the uniqueness
\* constraint is created unless two nodes already share a name
SchemaAfter(up) ==
    IF up /\ \A i \in 1..Len(entities) : NameCount(entities, entities[i].name) = 1
    THEN TRUE ELSE uniqueName

PostManage(req, lost) ==
    LET up == connected /\ ~lost
        answer(statements, response) == lastRequest' = [route |-> "neo4j", req |-> req, statements |-> statements, response |-> response]
    IN
    /\ CASE req.action = "initialize" ->
               IF ~connected
               THEN /\ answer(ConnectionCheck, Response(503, [success |-> FALSE, error |-> "Neo4j is not connected"]))
                    /\ UNCHANGED <<connected, uniqueName, entities, nodes, rels>>
               ELSE /\ answer(ConnectionCheck \o SchemaStatements \o MetricsStatements \o SchemaReadStatements,
                              Response(200, [success |-> TRUE, message |-> "Graph schema initialized successfully"]))
                    /\ connected' = up
                    /\ uniqueName' = SchemaAfter(up)
                    /\ UNCHANGED <<entities, nodes, rels>>
         [] req.action = "clear" ->
               IF ~Truthy(Field(req, "confirm"))
               THEN /\ answer(<<>>, Response(400, [success |-> FALSE,
                                  error |-> "Confirmation required to clear data. Set confirm: true"]))
                    /\ UNCHANGED <<connected, uniqueName, entities, nodes, rels>>
               ELSE IF ~connected
               THEN /\ answer(ConnectionCheck, Response(503, [success |-> FALSE, error |-> "Neo4j is not connected"]))
                    /\ UNCHANGED <<connected, uniqueName, entities, nodes, rels>>
               ELSE /\ answer(ConnectionCheck \o MetricsStatements \o <<DeleteStatement>> \o MetricsStatements,
                              Response(200, [success |-> TRUE, message |-> "Graph data cleared successfully",
                                             nodesRemoved |-> TotalNodes(up)]))
                    /\ connected' = up
                    /\ IF up THEN entities' = <<>> /\ nodes' = {} /\ rels' = {}
                       ELSE UNCHANGED <<entities, nodes, rels>>
                    /\ UNCHANGED uniqueName
         [] req.action = "metrics" ->
               /\ answer(MetricsStatements, Response(200, [success |-> TRUE, totalNodes |-> TotalNodes(connected)]))
               /\ UNCHANGED <<connected, uniqueName, entities, nodes, rels>>
         [] req.action = "schema" ->
               /\ answer(SchemaReadStatements, Response(200, [success |-> TRUE]))
               /\ UNCHANGED <<connected, uniqueName, entities, nodes, rels>>
         [] OTHER ->
               /\ answer(<<>>, Response(400, [success |-> FALSE,
                     error |-> "Invalid action. Supported actions: initialize, clear, metrics, schema"]))
               /\ UNCHANGED <<connected, uniqueName, entities, nodes, rels>>
    /\ UNCHANGED <<bulk, driver, probe>>
    /\ UNCHANGED <<now, ticks, queryCache, calls, lastOk, started>>
    /\ UNCHANGED gateway

(***************************************************************************)
(* POST of the graph search route (part_008 245-310) with handleTraversal  *)
(* (495-540), which calls traverseGraph (graphrag.ts 69-199).              *)
(***************************************************************************)
SearchRequests ==
    { [query |-> Str("Diwali"), type |-> "traverse", options |-> [startNodeId |-> Str("1")]],
      [query |-> Str("Diwali"), type |-> "traverse", options |-> [maxDepth |-> 1]],
      [type |-> "traverse", options |-> [startNodeId |-> Str("1")]],
      [type |-> "traverse", options |-> [maxDepth |-> 1]],
      [query |-> Num(1), type |-> "traverse", options |-> [startNodeId |-> Str("1")]],
      [query |-> Str("Diwali"), type |-> "similar", options |-> [maxDepth |-> 1]] }

\* traverseGraph from the cache lookup to its return
traverseGraph(query, cache, up, t) ==
    LET lk == getCachedResult(cache, generateCacheKey("traverse", query), t)
        a == TraverseAfterQuery(query, executeQuery(TraverseStatement(query), nodes, rels, up), t, lk.cache, t)
    IN IF lk.hit
       THEN [result |-> lk.result, cache |-> lk.cache, statements |-> <<>>]
       ELSE [result |-> a.result, cache |-> a.cache, statements |-> <<TraverseText>>]

handleTraversal(options, up) ==
    IF ~Truthy(Field(options, "startNodeId"))
    THEN [statements |-> <<>>, cache |-> queryCache,
          response |-> Response(400, [success |-> FALSE,
                                      error |-> "startNodeId is required for traversal queries"])]
    ELSE LET traversalQuery == [startNodeId |-> options.startNodeId.s,
                                relationshipTypes |-> Get(options, "relationshipTypes", <<>>),
                                direction |-> Get(options, "direction", "BOTH"),
                                maxDepth |-> Get(options, "maxDepth", 3)]
             r == traverseGraph(traversalQuery, queryCache, up, now)
         IN [statements |-> r.statements, cache |-> r.cache, response |-> Response(200, r.result)]

PostGraphSearch(req, lost) ==
    LET answer(statements, response) == lastRequest' = [route |-> "graph/search", req |-> req, statements |-> statements, response |-> response]
        query == Field(req, "query")
    IN
    /\ IF ~connected
       THEN /\ answer(ConnectionCheck, Response(503, [success |-> FALSE, error |-> "Neo4j database is not connected"]))
            /\ UNCHANGED <<connected, queryCache>>
       ELSE /\ connected' = ~lost
            /\ IF ~Truthy(query) \/ query.t # "string"
               THEN /\ answer(ConnectionCheck, Response(400, [success |-> FALSE, error |-> "Query is required and must be a string"]))
                    /\ UNCHANGED queryCache
               ELSE IF req.type = "traverse"
               THEN LET h == handleTraversal(req.options, ~lost)
                    IN /\ answer(ConnectionCheck \o h.statements, h.response)
                       /\ queryCache' = h.cache
               ELSE /\ answer(ConnectionCheck, Response(400, [success |-> FALSE,
                       error |-> "Invalid search type. Supported types: graphrag, hybrid, semantic, traverse, context"]))
                    /\ UNCHANGED queryCache
    /\ UNCHANGED mgmtButLast
    /\ UNCHANGED <<now, ticks, nodes, rels, calls, lastOk, started>>

(***************************************************************************)
(* Functions applied to drawn collaborators.  A collaborator's outcome is  *)
(* a returned value or a thrown one; a thrown value is an Error with a     *)
(* message, or something that is not an Error.                             *)
(***************************************************************************)
Returns(v) == [throws |-> FALSE, value |-> v]
Throws(x) == [throws |-> TRUE, thrown |-> x]
Thrown == {[isError |-> TRUE, message |-> "Weaviate unreachable"], [isError |-> TRUE, message |-> ""], [isError |-> FALSE]}

\* error instanceof Error ? error.message : "Unknown error"
ErrorMessage(x) == IF x.isError THEN x.message ELSE "Unknown error"

\* The mutant of RagCatch: reasoning is the bare message
RagCatchBareReasoning(question, x, startTime, t) ==
    [success |-> FALSE,
     answer |-> ApologyMessage,
     context |-> [nodes |-> <<>>, relationships |-> <<>>, paths |-> <<>>,
                  insights |-> <<>>, relevanceScore |-> 0, graphQuery |-> question],
     sources |-> <<>>,
     reasoning |-> <<Line(ErrorMessage(x), 0, <<>>)>>,
     confidence |-> 0,
     executionTime |-> t - startTime,
     error |-> ErrorMessage(x)]

\* graphrag.ts 625-646: the catch block of graphRAGQuery
RagCatch(question, x, startTime, t) ==
    [success |-> FALSE,
     answer |-> ApologyMessage,
     context |-> [nodes |-> <<>>, relationships |-> <<>>, paths |-> <<>>,
                  insights |-> <<>>, relevanceScore |-> 0, graphQuery |-> question],
     sources |-> <<>>,
     reasoning |-> <<Line("Error: ", 0, <<ErrorMessage(x)>>)>>,
     confidence |-> 0,
     executionTime |-> t - startTime,
     error |-> ErrorMessage(x)]

\* graphrag.ts 552-647: the try block awaits hybridSearch, then
\* generateGraphRAGContext, and builds the response; whatever is thrown in
\* it is caught
graphRAGQueryWith(question, includeVector, generateReasoning, hybrid, context, t) ==
    LET body == IF hybrid.throws THEN hybrid
                ELSE IF context.throws THEN context
                ELSE Returns(RagResponse(question, includeVector, generateReasoning, hybrid.value, context.value, t, t))
    IN IF body.throws THEN Returns(RagCatch(question, body.thrown, t, t)) ELSE body

\* what hybridSearch and generateGraphRAGContext may hand to graphRAGQuery
HybridOutcomes ==
    {Returns(HybridCombine(g, searchCulturalKnowledge(vs), maxResults)) :
        g \in {[success |-> TRUE, data |-> <<>>], [success |-> FALSE, data |-> <<>>, error |-> "Could not perform discovery"]},
        vs \in VectorStoreStates}
      \cup {Returns(HybridCatch("vector search threw"))}
      \cup {Throws(x) : x \in Thrown}
ContextOutcomes(question) ==
    {Returns(EmptyContext(question)), Returns(BuildContext(question, ConvertNode(1), FALSE, None, TRUE))}
      \cup {Throws(x) : x \in Thrown}

ProbeGraphRAGQuery ==
    /\ \E q \in Questions, iv \in BOOLEAN, gr \in BOOLEAN, h \in HybridOutcomes :
       \E cx \in ContextOutcomes(q) :
          probe' = [fn |-> "graphRAGQuery",
                    input |-> [question |-> q, includeVector |-> iv, generateReasoning |-> gr,
                               hybridSearch |-> h, generateGraphRAGContext |-> cx],
                    output |-> graphRAGQueryWith(q, iv, gr, h, cx, now)]
    /\ UNCHANGED <<entities, uniqueName, bulk, lastRequest, driver>>
    /\ UNCHANGED engine
    /\ UNCHANGED gateway

(***************************************************************************)
(* The graph store gateway (neo4j.ts 24-253) with the points at which the  *)
(* driver can fail: creating the driver, the test statement of             *)
(* initializeNeo4jDriver, running a statement, committing a transaction,   *)
(* closing the session.  drv is the module variable driver.                *)
(***************************************************************************)
\* statements handed to executeTransaction at once
MaxStatements == 2

Err(message) == [isError |-> TRUE, message |-> message]
\* try { body } finally { await session.close() }
Finally(body, closeFails) == IF closeFails THEN Throws(Err("session close failed")) ELSE body

\* neo4j.ts 41-88 getNeo4jDriver with initializeNeo4jDriver: [outcome, driver];
\* the module variable is assigned before the test statement runs
getNeo4jDriver(drv, faults) ==
    IF drv = "open" THEN [outcome |-> Returns("driver"), driver |-> "open"]
    ELSE IF faults.create THEN [outcome |-> Throws(Err("Could not create driver")), driver |-> "null"]
    ELSE IF faults.verify THEN [outcome |-> Throws(Err("ServiceUnavailable")), driver |-> "open"]
    ELSE [outcome |-> Returns("driver"), driver |-> "open"]

QueryFailure(x) == [success |-> FALSE, data |-> <<>>, totalResults |-> 0, error |-> ErrorMessage(x)]
QuerySuccess == [success |-> TRUE, data |-> <<>>, totalResults |-> 0]

\* The mutant of executeQueryOn: the session is closed after the catch
executeQueryCloseUnguarded(drv, faults) ==
    LET d == getNeo4jDriver(drv, faults)
        inner == IF faults.run THEN Throws(Err("ServiceUnavailable")) ELSE Returns(QuerySuccess)
        caught == IF d.outcome.throws THEN Returns(QueryFailure(d.outcome.thrown))
                  ELSE IF inner.throws THEN Returns(QueryFailure(inner.thrown)) ELSE inner
    IN [outcome |-> IF d.outcome.throws THEN caught ELSE Finally(caught, faults.close),
        driver |-> d.driver]

\* neo4j.ts 139-185 executeQuery
executeQueryOn(drv, faults) ==
    LET d == getNeo4jDriver(drv, faults)
        inner == IF faults.run THEN Throws(Err("ServiceUnavailable")) ELSE Returns(QuerySuccess)
        body == IF d.outcome.throws THEN d.outcome ELSE Finally(inner, faults.close)
    IN [outcome |-> IF body.throws THEN Returns(QueryFailure(body.thrown)) ELSE body,
        driver |-> d.driver]

\* neo4j.ts 104-134 checkNeo4jConnection
checkNeo4jConnectionOn(drv, faults) ==
    LET d == getNeo4jDriver(drv, faults)
        inner == IF faults.run THEN Throws(Err("ServiceUnavailable"))
                 ELSE Returns([connected |-> TRUE, version |-> "5"])
        body == IF d.outcome.throws THEN d.outcome ELSE Finally(inner, faults.close)
    IN [outcome |-> IF body.throws
                    THEN Returns([connected |-> FALSE, error |-> ErrorMessage(body.thrown)])
                    ELSE body,
        driver |-> d.driver]

\* The mutant of executeWrite: a rejected statement leaves the transaction
\* usable and the commit keeps the writes of the others
executeWriteKeepingSurvivors(n, failing, commitFails) ==
    LET queryResults == [i \in 1..n |->
                            IF i \in failing THEN QueryFailure(Err("statement rejected"))
                            ELSE QuerySuccess]
    IN IF commitFails
       THEN [outcome |-> Throws(Err("transaction could not be committed")), committed |-> {}]
       ELSE [outcome |-> Returns(queryResults), committed |-> (1..n) \ failing]

\* neo4j.ts 198-236 session.executeWrite on n statements of which those in
\* failing are rejected by the store: tx.run in turn, each error caught and
\* recorded by the loop; a rejected statement fails the store's transaction,
\* which then rejects every later statement and the commit that follows the
\* return of the transaction function; the writes are committed together
\* or not at all.  [outcome, committed statements]
executeWrite(n, failing, commitFails) ==
    LET txFailedBefore(i) == \E j \in failing : j < i
        queryResults == [i \in 1..n |->
                            IF i \in failing THEN QueryFailure(Err("statement rejected"))
                            ELSE IF txFailedBefore(i) THEN QueryFailure(Err("transaction has been rolled back"))
                            ELSE QuerySuccess]
    IN IF failing # {}
       THEN [outcome |-> Throws(Err("Cannot commit this transaction, because it has been rolled back")),
             committed |-> {}]
       ELSE IF commitFails
       THEN [outcome |-> Throws(Err("transaction could not be committed")), committed |-> {}]
       ELSE [outcome |-> Returns(queryResults), committed |-> 1..n]

\* neo4j.ts 190-253 executeTransaction on n statements of which those in
\* failing are rejected: [outcome, driver, committed statements]
executeTransactionOn(drv, n, failing, faults) ==
    LET d == getNeo4jDriver(drv, faults)
        tx == executeWrite(n, failing, faults.run)
        body == IF d.outcome.throws THEN d.outcome ELSE Finally(tx.outcome, faults.close)
    IN [outcome |-> IF body.throws
                    THEN Returns(<<QueryFailure(body.thrown)>>)
                    ELSE body,
        driver |-> d.driver,
        committed |-> IF d.outcome.throws THEN {} ELSE tx.committed]

Faults == [create : BOOLEAN, verify : BOOLEAN, run : BOOLEAN, close : BOOLEAN]

ProbeExecuteQuery ==
    /\ \E f \in Faults :
          LET r == executeQueryOn(driver, f)
          IN /\ probe' = [fn |-> "executeQuery", input |-> [driver |-> driver, faults |-> f],
                          output |-> r.outcome]
             /\ driver' = r.driver
    /\ UNCHANGED <<entities, uniqueName, bulk, lastRequest>>
    /\ UNCHANGED engine
    /\ UNCHANGED gateway

ProbeCheckConnection ==
    /\ \E f \in Faults :
          LET r == checkNeo4jConnectionOn(driver, f)
          IN /\ probe' = [fn |-> "checkNeo4jConnection", input |-> [driver |-> driver, faults |-> f],
                          output |-> r.outcome]
             /\ driver' = r.driver
    /\ UNCHANGED <<entities, uniqueName, bulk, lastRequest>>
    /\ UNCHANGED engine
    /\ UNCHANGED gateway

ProbeExecuteTransaction ==
    /\ \E f \in Faults, n \in 1..MaxStatements :
       \E failing \in SUBSET (1..n) :
          LET r == executeTransactionOn(driver, n, failing, f)
          IN /\ probe' = [fn |-> "executeTransaction",
                          input |-> [driver |-> driver, faults |-> f, n |-> n, failing |-> failing],
                          output |-> r.outcome, committed |-> r.committed]
             /\ driver' = r.driver
    /\ UNCHANGED <<entities, uniqueName, bulk, lastRequest>>
    /\ UNCHANGED engine
    /\ UNCHANGED gateway

\* neo4j.ts 93-99 closeNeo4jDriver
CloseDriver ==
    /\ driver = "open"
    /\ driver' = "null"
    /\ UNCHANGED <<entities, uniqueName, bulk, lastRequest, probe>>
    /\ UNCHANGED engine
    /\ UNCHANGED gateway

(***************************************************************************)
(* hybridSearch's pooling (graphrag.ts 348-395) applied to drawn branch    *)
(* results: graph items carrying a score, a zero score or none, vector     *)
(* items, a failed branch, and a maxResults below and above the pool size. *)
(***************************************************************************)
\* items a drawn branch result holds at most
MaxItems == 2

GraphItems == {[node |-> ConvertNode(1), score |-> 5], [node |-> ConvertNode(2), score |-> 20], [node |-> ConvertNode(3), score |-> 0], [node |-> ConvertNode(3)]}
SeqsUpTo(S, n) == UNION {[1..k -> S] : k \in 0..n}
GraphBranchResults ==
    {[success |-> TRUE, data |-> d, totalResults |-> Len(d)] : d \in SeqsUpTo(GraphItems, MaxItems)}
        \cup {[success |-> FALSE, data |-> <<>>, totalResults |-> 0, error |-> "Could not perform discovery"]}
VectorBranchResults ==
    {[success |-> TRUE, data |-> d] : d \in SeqsUpTo({VectorItem}, MaxItems)}
        \cup {[success |-> FALSE, data |-> <<>>, error |-> "Weaviate unreachable"]}
MaxResultsInputs == {1, 2, maxResults}

ProbeHybridCombine ==
    /\ \E g \in GraphBranchResults, v \in VectorBranchResults, m \in MaxResultsInputs :
          probe' = [fn |-> "hybridSearch",
                    input |-> [graphResults |-> g, vectorResults |-> v, maxResults |-> m],
                    output |-> [result |-> HybridCombine(g, v, m),
                                combinedResults |-> CombinedResults(g, v),
                                finalResults |-> FinalResults(g, v, m)]]
    /\ UNCHANGED <<entities, uniqueName, bulk, lastRequest, driver>>
    /\ UNCHANGED engine
    /\ UNCHANGED gateway

(***************************************************************************)
(* The management side starts with no CulturalEntity node and no schema.   *)
(***************************************************************************)
(***************************************************************************)
(* The gateway functions run concurrently (neo4j.ts 24-253).  Each is an   *)
(* async function: it runs without interruption from one await to the      *)
(* next.  Driver instances are numbered in the order neo4j.driver() made   *)
(* them; gateway.current is the instance the module variable driver refers *)
(* to (0: null).  A call is [pc, fn, drv]: drv the instance it obtained.   *)
(***************************************************************************)
NGatewayCalls == 3
GatewayCalls == 1..NGatewayCalls
GatewayFunctions == {"executeQuery", "executeTransaction", "checkNeo4jConnection"}
IdleGateway ==
    [created |-> 0, current |-> 0, closed |-> {},
     calls |-> [p \in GatewayCalls |-> [pc |-> "idle"]]]

\* The mutant of ModuleDriverAfterCreate: the module variable is assigned
\* only when initializeNeo4jDriver has returned
ModuleDriverAfterCreateDeferred(current, made) == current

\* neo4j.ts 51: driver = neo4j.driver(...), before the test statement is awaited
ModuleDriverAfterCreate(current, made) == made

\* neo4j.ts 46-66: initializeNeo4jDriver up to its await of the test
\* statement: an instance the module variable refers to is closed, a new
\* one is made and a session is opened on it
initializeNeo4jDriverHead(g) ==
    [g EXCEPT !.closed = IF g.current # 0 THEN g.closed \cup {g.current} ELSE g.closed,
              !.created = g.created + 1,
              !.current = ModuleDriverAfterCreate(g.current, g.created + 1)]

DriverState(g) == IF g.current = 0 THEN "null" ELSE "open"

\* executeQuery / executeTransaction / checkNeo4jConnection up to the first
\* await: getNeo4jDriver (83-88) finds the module variable set, or runs
\* initializeNeo4jDriver up to its await
GatewayCall(p, fn) ==
    /\ gateway.calls[p].pc = "idle"
    /\ IF p = 1 THEN TRUE ELSE gateway.calls[p - 1].pc # "idle"
    /\ gateway' =
          IF gateway.current = 0
          THEN LET g == initializeNeo4jDriverHead(gateway)
               IN [g EXCEPT !.calls[p] = [pc |-> "initTest", fn |-> fn, drv |-> g.created]]
          ELSE [gateway EXCEPT !.calls[p] = [pc |-> "haveDriver", fn |-> fn, drv |-> gateway.current]]
    /\ driver' = DriverState(gateway')
    /\ UNCHANGED <<entities, uniqueName, bulk, lastRequest, probe>>
    /\ UNCHANGED engine

\* neo4j.ts 67-77, 85: the test statement settles and its session is
\* closed; initializeNeo4jDriver returns the instance, which getNeo4jDriver
\* assigns to the module variable, or rethrows and the gateway function's
\* catch returns a failure
GatewayInitTested(p, ok) ==
    /\ gateway.calls[p].pc = "initTest"
    /\ gateway' =
          IF ok
          THEN [gateway EXCEPT !.current = gateway.calls[p].drv, !.calls[p].pc = "haveDriver"]
          ELSE [gateway EXCEPT !.calls[p] =
                   [pc |-> "done", fn |-> gateway.calls[p].fn, drv |-> gateway.calls[p].drv,
                    success |-> FALSE]]
    /\ driver' = DriverState(gateway')
    /\ UNCHANGED <<entities, uniqueName, bulk, lastRequest, probe>>
    /\ UNCHANGED engine

\* neo4j.ts 111, 148, 196: a session is opened on the obtained instance and
\* the statement is awaited
GatewaySession(p) ==
    /\ gateway.calls[p].pc = "haveDriver"
    /\ gateway' = [gateway EXCEPT !.calls[p].pc = "running"]
    /\ UNCHANGED <<entities, uniqueName, bulk, lastRequest, driver, probe>>
    /\ UNCHANGED engine

\* the statement settles, the session is closed in finally and the
\* function returns
GatewaySettle(p, ok) ==
    /\ gateway.calls[p].pc = "running"
    /\ gateway' = [gateway EXCEPT !.calls[p] =
                      [pc |-> "done", fn |-> gateway.calls[p].fn, drv |-> gateway.calls[p].drv,
                       success |-> ok]]
    /\ UNCHANGED <<entities, uniqueName, bulk, lastRequest, driver, probe>>
    /\ UNCHANGED engine

InitManagement ==
    /\ entities = <<>>
    /\ uniqueName = FALSE
    /\ bulk = IdleBulk
    /\ lastRequest = NoRequest
    /\ driver = "null"
    /\ probe = [fn |-> "none"]
    /\ gateway = IdleGateway


(***************************************************************************)
(* The specification.  The store starts reachable, holding scenario A's    *)
(* graph (Diwali -WORSHIPS-> Lakshmi) or the triangle; clearGraphData      *)
(* empties it.                                                             *)
(***************************************************************************)
InitialGraphs ==
    { [n |-> {1, 2}, r |-> {1}], [n |-> {1, 2, 3}, r |-> {1, 2, 3}] }

Init ==
    /\ now = 0
    /\ ticks = 0
    /\ connected = TRUE
    /\ \E g \in InitialGraphs : nodes = g.n /\ rels = g.r
    /\ queryCache = {}
    /\ lastOk = {}
    /\ calls = [c \in Calls |-> IdleCall]
    /\ started = 0
    /\ InitManagement

Next ==
    \/ Tick
    \/ Disconnect
    \/ Reconnect
    \/ clearGraphData
    \/ \E c \in Calls : CallTraverse(c)
    \/ \E c \in Calls : CallSemantic(c)
    \/ \E c \in Calls : CallHybrid(c)
    \/ \E c \in Calls : CallRag(c)
    \/ \E c \in Calls, slot \in {"g", "s"} : StoreAnswers(c, slot)
    \/ \E c \in Calls : VectorAnswers(c)
    \/ \E c \in Calls : VectorRejects(c)
    \/ \E c \in Calls : HybridJoin(c)
    \/ \E c \in Calls : ContextStart(c)
    \/ \E c \in Calls : ContextSeed(c)
    \/ \E c \in Calls : RagRespond(c)
    \/ \E c \in Calls : Return(c)

Spec == Init /\ [][Next]_vars

(***************************************************************************)
(* Spec is explored in two parts.  The callers of SpecSearch call          *)
(* traverseGraph and semanticGraphSearch directly while the clock runs;    *)
(* those of SpecRag call hybridSearch and graphRAGQuery, whose inner       *)
(* searches fill the same cache, at one instant of the clock.  The two     *)
(* kinds of call meet only in queryCache.  In SpecRag every call keeps its *)
(* slot.                                                                   *)
(***************************************************************************)
NextSearch ==
    \/ Tick
    \/ Disconnect
    \/ Reconnect
    \/ clearGraphData
    \/ \E c \in Calls : CallTraverse(c)
    \/ \E c \in Calls : CallSemantic(c)
    \/ \E c \in Calls : StoreAnswers(c, "s")
    \/ \E c \in Calls : Return(c)

SpecSearch == Init /\ [][NextSearch]_vars

NextRag ==
    \/ Disconnect
    \/ Reconnect
    \/ clearGraphData
    \/ \E c \in Calls : CallHybrid(c)
    \/ \E c \in Calls : CallRag(c)
    \/ \E c \in Calls, slot \in {"g", "s"} : StoreAnswers(c, slot)
    \/ \E c \in Calls : VectorAnswers(c)
    \/ \E c \in Calls : VectorRejects(c)
    \/ \E c \in Calls : HybridJoin(c)
    \/ \E c \in Calls : ContextStart(c)
    \/ \E c \in Calls : ContextSeed(c)
    \/ \E c \in Calls : RagRespond(c)

SpecRag == Init /\ [][NextRag]_vars

(***************************************************************************)
(* hybridSearch under fair scheduling.  The runtime resumes a function     *)
(* whose awaited Promise.all has settled: that step is weakly fair.        *)
(* Nothing in graphrag.ts or weaviate.ts bounds the wait for the vector    *)
(* store, so its answer is not.                                            *)
(***************************************************************************)
NextHybrid ==
    \/ Disconnect
    \/ Reconnect
    \/ \E c \in Calls : CallHybrid(c)
    \/ \E c \in Calls : StoreAnswers(c, "g")
    \/ \E c \in Calls : VectorAnswers(c)
    \/ \E c \in Calls : VectorRejects(c)
    \/ \E c \in Calls : HybridJoin(c)

FairHybrid == \A c \in Calls : WF_vars(HybridJoin(c))

SpecHybridFair == Init /\ [][NextHybrid]_vars /\ FairHybrid

(***************************************************************************)
(* traverseGraph alone, over stores in which the start node is missing,    *)
(* has no relationship, or lies on a cycle; the store keeps its graph.     *)
(***************************************************************************)
TraverseGraphs ==
    { [n |-> {1, 2, 3}, r |-> {1}], [n |-> {1, 2, 3}, r |-> {1, 2, 3}], [n |-> {2, 3}, r |-> {3}] }

TraverseAnyInputs ==
    { [startNodeId |-> "1"], [startNodeId |-> "3"], [startNodeId |-> "7"],
      [startNodeId |-> "Diwali"], [startNodeId |-> "1", maxDepth |-> 1],
      [startNodeId |-> "3", relationshipTypes |-> <<"WORSHIPS">>],
      [startNodeId |-> "3", direction |-> "OUTGOING"],
      [startNodeId |-> "1", direction |-> "OUTGOING", relationshipTypes |-> <<"WORSHIPS">>] }

CallTraverseAny(c) == \E q \in TraverseAnyInputs : CallDirect(c, "traverse", q)

InitTraverse ==
    /\ now = 0
    /\ ticks = 0
    /\ connected = TRUE
    /\ \E g \in TraverseGraphs : nodes = g.n /\ rels = g.r
    /\ queryCache = {}
    /\ lastOk = {}
    /\ calls = [c \in Calls |-> IdleCall]
    /\ started = 0
    /\ InitManagement

NextTraverse ==
    \/ Disconnect
    \/ Reconnect
    \/ \E c \in Calls : CallTraverseAny(c)
    \/ \E c \in Calls : StoreAnswers(c, "s")
    \/ \E c \in Calls : Return(c)

SpecTraverse == InitTraverse /\ [][NextTraverse]_vars

(***************************************************************************)
(* generateGraphRAGContext (graphrag.ts 417-531) applied to what its       *)
(* collaborators semanticGraphSearch and traverseGraph hand it.            *)
(***************************************************************************)
\* graphrag.ts 516-530: the catch block of generateGraphRAGContext
ContextCatch(query, x) ==
    [nodes |-> <<>>, relationships |-> <<>>, paths |-> <<>>,
     insights |-> <<Line("Error generating context: ", 0, <<ErrorMessage(x)>>)>>,
     relevanceScore |-> 0, graphQuery |-> query]

\* graphrag.ts 431-531: semantic and traversal are the outcomes of the two
\* awaited searches; the traversal is awaited only for a seed with an id
generateGraphRAGContextWith(query, includeRelatedEntities, includeInsights, semantic, traversal) ==
    IF semantic.throws THEN ContextCatch(query, semantic.thrown)
    ELSE IF ~semantic.value.success \/ Len(semantic.value.data) = 0 THEN EmptyContext(query)
    ELSE LET startNode == semantic.value.data[1].node
             ran == includeRelatedEntities /\ startNode.id # ""
         IN IF ran /\ traversal.throws THEN ContextCatch(query, traversal.thrown)
            ELSE BuildContext(query, startNode, ran,
                              IF ran THEN traversal.value ELSE None, includeInsights)

\* the graphs the collaborators have searched
ContextGraphs == InitialGraphs \cup TraverseGraphs

\* what semanticGraphSearch may hand over for the context's query
SemanticOutcomes(query) ==
    {Returns(SemanticAfterQuery(ContextSemanticQuery(query),
                                executeQuery(SemanticStatement(ContextSemanticQuery(query)), g.n, g.r, up),
                                0, {}, 0).result) : g \in ContextGraphs, up \in BOOLEAN}
      \cup {Throws(Err("search threw"))}

\* what traverseGraph may hand over for the traversal from the seed: the
\* failure it returns when the store rejects its statement, and the
\* traversals from the seed to the given depth that a store returns
TraversalOutcomes(startNode, maxDepth) ==
    LET query == ContextTraversalQuery(startNode, maxDepth)
        walk == [startNodeId |-> startNode.id, maxDepth |-> maxDepth]
    IN {Returns(TraverseAfterQuery(query, executeQuery(TraverseStatement(query), g.n, g.r, TRUE),
                                   0, {}, 0).result) : g \in ContextGraphs}
         \cup {Returns(TraverseAfterQuery(query, executeQuery(TraverseStatement(walk), g.n, g.r, TRUE),
                                          0, {}, 0).result) : g \in ContextGraphs}
         \cup {Throws(Err("traversal threw"))}

ProbeGenerateContext ==
    /\ \E q \in Questions, related \in BOOLEAN, insights \in BOOLEAN, depth \in {1, reasoningDepth} :
       \E sem \in SemanticOutcomes(q) :
       \E trav \in (IF sem.throws \/ sem.value.data = <<>> THEN {Throws(Err("traversal threw"))}
                     ELSE TraversalOutcomes(sem.value.data[1].node, depth)) :
          probe' = [fn |-> "generateGraphRAGContext",
                    input |-> [query |-> q, includeRelatedEntities |-> related,
                               includeInsights |-> insights, maxDepth |-> depth,
                               semanticGraphSearch |-> sem, traverseGraph |-> trav],
                    output |-> generateGraphRAGContextWith(q, related, insights, sem, trav)]
    /\ UNCHANGED <<entities, uniqueName, bulk, lastRequest, driver>>
    /\ UNCHANGED engine
    /\ UNCHANGED gateway

\* the contexts generateGraphRAGContext hands to graphRAGQuery, which
\* passes includeRelatedEntities and includeInsights as true (560-564)
GraphContexts(question) ==
    {generateGraphRAGContextWith(question, TRUE, TRUE, sem, trav) :
        sem \in {x \in SemanticOutcomes(question) : ~x.throws /\ x.value.data # <<>>},
        trav \in UNION {TraversalOutcomes(ConvertNode(n), reasoningDepth) : n \in NodeIds}}
      \cup {EmptyContext(question)}

\* graphrag.ts 609-613: graphRAGQuery renders its answer from the context
ProbeContextualAnswer ==
    /\ \E q \in Questions : \E ctx \in GraphContexts(q) :
          probe' = [fn |-> "generateContextualAnswer",
                    input |-> [question |-> q, context |-> ctx],
                    output |-> generateContextualAnswer(q, ctx)]
    /\ UNCHANGED <<entities, uniqueName, bulk, lastRequest, driver>>
    /\ UNCHANGED engine
    /\ UNCHANGED gateway

(***************************************************************************)
(* The functions whose claims quantify over what their collaborators do    *)
(* are applied to drawn collaborators.                                     *)
(***************************************************************************)
NextRagUnit ==
    \/ ProbeGraphRAGQuery

SpecRagUnit == Init /\ [][NextRagUnit]_vars

NextContext ==
    \/ ProbeGenerateContext
    \/ ProbeContextualAnswer

SpecContext == Init /\ [][NextContext]_vars

\* the three gateway functions called concurrently, starting without a driver
NextDriver ==
    \/ \E p \in GatewayCalls, fn \in GatewayFunctions : GatewayCall(p, fn)
    \/ \E p \in GatewayCalls, ok \in BOOLEAN : GatewayInitTested(p, ok)
    \/ \E p \in GatewayCalls : GatewaySession(p)
    \/ \E p \in GatewayCalls, ok \in BOOLEAN : GatewaySettle(p, ok)

SpecDriver == Init /\ [][NextDriver]_vars

NextGateway ==
    \/ ProbeExecuteQuery
    \/ ProbeCheckConnection
    \/ ProbeExecuteTransaction
    \/ CloseDriver

SpecGateway == Init /\ [][NextGateway]_vars

NextPooling ==
    \/ ProbeHybridCombine

SpecPooling == Init /\ [][NextPooling]_vars

(***************************************************************************)
(* The management side is explored in two parts as well: SpecLoader has    *)
(* the bulk loader and the add_entity route write CulturalEntity nodes,    *)
(* SpecRoutes has the three routes answer requests; in both the store      *)
(* comes and goes.                                                         *)
(***************************************************************************)
NextLoader ==
    \/ Disconnect
    \/ Reconnect
    \/ BulkStart
    \/ BulkUpsert
    \/ \E req \in GraphInitRequests, lost \in BOOLEAN : PostGraphInit(req, lost)
    \/ \E lost \in BOOLEAN : PostManage([action |-> "initialize"], lost)

SpecLoader == Init /\ [][NextLoader]_vars

NextRoutes ==
    \/ Disconnect
    \/ Reconnect
    \/ \E req \in GraphInitRequests, lost \in BOOLEAN : PostGraphInit(req, lost)
    \/ \E req \in ManageRequests, lost \in BOOLEAN : PostManage(req, lost)
    \/ \E req \in SearchRequests, lost \in BOOLEAN : PostGraphSearch(req, lost)

SpecRoutes == Init /\ [][NextRoutes]_vars

(***************************************************************************)
(* The properties.  Times are in milliseconds, scores and confidences in   *)
(* tenths (0.5 is 5).                                                      *)
(***************************************************************************)
Started(c) == calls[c].pc # "idle"
Settled(c) == calls[c].pc = "done"
SameQuery(a, c) == calls[a].kind = calls[c].kind /\ calls[a].args = calls[c].args
KeyOf(c) == generateCacheKey(calls[c].kind, calls[c].args)
\* the names a rendered answer carries (the descriptions above name no entity)
AnswerNames(answer) == UNION {Range(answer[i].vals) : i \in DOMAIN answer}
NamesOf(ns) == {ns[i].name : i \in DOMAIN ns}

\* C1: when every graph-store query of a graphRAGQuery call fails (the store
\* is disconnected), the response has success = false and a non-empty error,
\* so that it differs from the response for a question that matched nothing.
StoreDownReported ==
    \A c \in Calls :
        (/\ calls[c].kind = "rag"
         /\ Settled(c)
         /\ calls[c].hits = 0
         /\ calls[c].issued > 0
         /\ calls[c].failed = calls[c].issued)
        => /\ ~calls[c].result.success
           /\ Get(calls[c].result, "error", "") # ""

CachedWithinWindowOfCompletion ==
    \A a \in Calls : \A c \in Calls :
        (/\ a # c
         /\ Direct(a) /\ Settled(a) /\ calls[a].result.success
         /\ Direct(c) /\ Started(c)
         /\ SameQuery(a, c)
         /\ a \in calls[c].seen
         /\ calls[c].startTime < calls[a].doneAt + cacheTimeout)
        => /\ calls[c].issued = 0
           /\ Settled(c)
           /\ calls[c].result = calls[a].result

\* C3 amended: once a store query for q has succeeded and its result been
\* stored at time t, every call with the same q that starts before
\* t + cacheTimeout, and before another store query for q succeeds, issues no
\* store query and returns that stored result, whatever the store holds by then.
CachedWithinWindowOfStore ==
    \A c \in Calls :
        (/\ Direct(c) /\ Started(c)
         /\ calls[c].prior.has
         /\ calls[c].startTime < calls[c].prior.at + cacheTimeout)
        => /\ calls[c].issued = 0
           /\ Settled(c)
           /\ calls[c].result = calls[c].prior.result

\* a semantic search answered from the cache, one tick short of the timeout
\* after the result was stored, with the entities it names deleted meanwhile
CachedAfterStoreChanged ==
    \E c \in Calls :
        /\ calls[c].kind = "semantic" /\ Settled(c)
        /\ calls[c].prior.has
        /\ calls[c].startTime = calls[c].prior.at + cacheTimeout - 1
        /\ calls[c].issued = 0
        /\ Len(calls[c].result.data) > 0
        /\ nodes = {}

\* C4: a call finds its key in the cache exactly when the key has an entry
\* and now - storedAt < 300000; it then returns the stored value, and
\* otherwise (no entry, or an entry of age >= 300000) it queries the store.
ExpiryAtTimeout ==
    \A c \in Calls :
        (Direct(c) /\ Started(c))
        => LET f == calls[c].found
               young == f.has /\ calls[c].startTime - f.timestamp < 300000
           IN /\ young <=> calls[c].issued = 0
              /\ young => calls[c].result = f.result
              /\ ~young => calls[c].issued = 1

\* one call met an entry of age 299999 and took it, another met an entry of
\* age 300000 and went to the store
ExpiryBoundaryReached ==
    \E c \in Calls : \E d \in Calls :
        /\ Direct(c) /\ Started(c) /\ calls[c].found.has
        /\ calls[c].startTime - calls[c].found.timestamp = 299999
        /\ calls[c].issued = 0
        /\ Direct(d) /\ Started(d) /\ calls[d].found.has
        /\ calls[d].startTime - calls[d].found.timestamp = 300000
        /\ calls[d].issued = 1

\* C5: under every interleaving of traverseGraph / semanticGraphSearch calls,
\* each cache entry is the complete result of a store query for its key that
\* returned success; a failed or unfinished call leaves no entry, and no
\* call served from the cache gets a failure.
CacheHoldsSuccessfulResults ==
    /\ \A e \in queryCache :
          /\ e.result.success
          /\ \E l \in lastOk :
                l.key = e.key /\ l.result = e.result /\ l.at = e.timestamp
    /\ \A c \in Calls :
          (Direct(c) /\ Settled(c) /\ calls[c].issued = 0)
          => calls[c].result.success

\* two overlapping calls with one query, one answered by the store and one
\* failed: the entry of their key is the result of the one that succeeded
FailureBesideCachedSuccess ==
    \E c \in Calls : \E d \in Calls :
        /\ c # d
        /\ Direct(c) /\ Settled(c) /\ Direct(d) /\ Settled(d)
        /\ SameQuery(c, d)
        /\ c \notin calls[d].seen /\ d \notin calls[c].seen
        /\ calls[c].issued = 1 /\ calls[d].issued = 1
        /\ calls[c].result.success /\ ~calls[d].result.success
        /\ \E e \in queryCache : e.key = KeyOf(c) /\ e.result = calls[c].result

\* C6: every path of a successful traverseGraph result has length <= maxDepth
\* (3 when omitted), on cyclic graphs too, computed or served from the cache.
PathsWithinMaxDepth ==
    \A c \in Calls :
        (calls[c].kind = "traverse" /\ Settled(c) /\ calls[c].result.success)
        => LET d == IF "maxDepth" \in DOMAIN calls[c].args
                    THEN calls[c].args.maxDepth ELSE 3
               ps == calls[c].result.paths
           IN \A i \in DOMAIN ps :
                 /\ ps[i].length <= d
                 /\ Len(ps[i].relationships) <= d

\* a traversal of depth 1 on the triangle, served from the cache: the two
\* paths of one relationship, where the triangle has longer ones
CachedTraversalOfCycle ==
    \E c \in Calls :
        /\ calls[c].kind = "traverse" /\ Settled(c)
        /\ calls[c].args = [startNodeId |-> "1", maxDepth |-> 1]
        /\ calls[c].issued = 0
        /\ rels = {1, 2, 3}
        /\ Len(calls[c].result.paths) = 2

\* C7: in every successful semanticGraphSearch result, with or without a
\* context and for minScore > 0 (0.5 by default), scores do not increase with
\* the index and no item has a score below minScore.
SemanticScoresOrderedAboveMin ==
    \A c \in Calls :
        (calls[c].kind = "semantic" /\ Settled(c) /\ calls[c].result.success)
        => LET minScore == IF "minScore" \in DOMAIN calls[c].args
                           THEN calls[c].args.minScore ELSE 5
               data == calls[c].result.data
           IN \A i \in DOMAIN data :
                 /\ data[i].score >= minScore
                 /\ i < Len(data) => data[i].score >= data[i + 1].score

\* C8: a graphRAGQuery response with success = true has confidence =
\* max(context.relevanceScore, 0.5), so at least 0.5; a confidence below 0.5
\* comes only with success = false.
ConfidenceIsFlooredRelevance ==
    \A c \in Calls :
        (calls[c].kind = "rag" /\ Settled(c))
        => LET r == calls[c].result
           IN /\ r.success =>
                    /\ r.confidence = Max(r.context.relevanceScore, 5)
                    /\ r.confidence >= 5
              /\ r.confidence < 5 => ~r.success

\* a response whose context has relevance 0.2 and whose confidence is 0.5
ConfidenceLiftedToFloor ==
    \E c \in Calls :
        /\ calls[c].kind = "rag" /\ Settled(c)
        /\ calls[c].result.success
        /\ calls[c].result.context.relevanceScore = 2
        /\ calls[c].result.confidence = 5

\* C9: when the semantic search of the context succeeds and matches no
\* entity, graphRAGQuery returns success = true, no context nodes, relevance
\* 0, confidence 0.5 and the fixed "couldn't find" answer, not the apology.
NothingFoundResponse ==
    \A c \in Calls :
        (/\ calls[c].kind = "rag" /\ Settled(c)
         /\ calls[c].sem # None
         /\ calls[c].sem.success
         /\ Len(calls[c].sem.data) = 0)
        => LET r == calls[c].result
           IN /\ r.success
              /\ r.context.nodes = <<>>
              /\ r.context.relevanceScore = 0
              /\ r.confidence = 5
              /\ r.answer = NotFoundMessage
              /\ r.answer # ApologyMessage

\* scenario B: "nonexistent concept xyz123" asked of a populated graph, the
\* store having answered the search itself
NothingFoundInPopulatedGraph ==
    \E c \in Calls :
        /\ calls[c].kind = "rag" /\ Settled(c)
        /\ calls[c].args.query = "nonexistent concept xyz123"
        /\ calls[c].hits = 0 /\ calls[c].failed = 0
        /\ calls[c].sem # None /\ calls[c].sem.success
        /\ nodes = {1, 2, 3}

\* C10: with the graph Diwali -WORSHIPS-> Lakshmi, graphRAGQuery("Tell me
\* about Diwali") with default options returns success = true, both entities
\* among context.nodes, one relationship, of type WORSHIPS, and an answer
\* that names Diwali and Lakshmi.
ScenarioADiwaliLakshmi ==
    \A c \in Calls :
        (/\ calls[c].kind = "rag" /\ Settled(c)
         /\ calls[c].args = [query |-> "Tell me about Diwali", includeVector |-> TRUE]
         /\ nodes = {1, 2} /\ rels = {1}
         /\ calls[c].sem # None
         /\ calls[c].sem.success
         /\ Len(calls[c].sem.data) > 0)
        => LET r == calls[c].result
           IN /\ r.success
              /\ {"Diwali", "Lakshmi"} \subseteq NamesOf(r.context.nodes)
              /\ Len(r.context.relationships) = 1
              /\ r.context.relationships[1].type = "WORSHIPS"
              /\ {"Diwali", "Lakshmi"} \subseteq AnswerNames(r.answer)

(***************************************************************************)
(* The properties of the management side.                                  *)
(***************************************************************************)
\* an add_entity request that reaches addCulturalEntity
ValidAdd(req) == req.action = "add_entity" /\ Has(req, "entity") /\ MissingFields(req.entity) = <<>>

\* C11: adding an entity whose name the store already holds once (put there
\* by addCulturalEntity or by the bulk loader), with the store reachable,
\* succeeds and leaves exactly one node of that name, holding the
\* description of the second call.
UpsertIdempotentOnName ==
    [][/\ \A req \in GraphInitRequests :
            (/\ PostGraphInit(req, FALSE)
             /\ connected
             /\ ValidAdd(req)
             /\ NameCount(entities, req.entity.name.s) = 1)
            => /\ lastRequest'.response.body.success
               /\ NameCount(entities', req.entity.name.s) = 1
               /\ DescriptionsOf(entities', req.entity.name.s) = {req.entity.description.s}
       /\ (/\ BulkUpsert
           /\ connected
           /\ NameCount(entities, CULTURAL_ENTITIES[bulk.i].name) = 1)
            => /\ bulk'.outcomes[bulk.i]
               /\ NameCount(entities', CULTURAL_ENTITIES[bulk.i].name) = 1
               /\ DescriptionsOf(entities', CULTURAL_ENTITIES[bulk.i].name)
                      = {CULTURAL_ENTITIES[bulk.i].description}]_vars

\* the confirm flag of a request is set: present, and not false, "" or 0
ConfirmSet(req) == Has(req, "confirm") /\ req.confirm \notin {Bool(FALSE), Str(""), Num(0)}
ConfirmedClear(l) == l.route = "neo4j" /\ l.req.action = "clear" /\ ConfirmSet(l.req)

\* C12: in every step, the delete-everything statement is among the
\* statements of a request, and the store loses its nodes, only when the
\* request is a clear with the confirm flag set; a clear without the flag is
\* answered with an error (status 400), sends no statement and leaves the
\* store as it was.
ClearOnlyWhenConfirmed ==
    [][/\ DeleteStatement \in Range(Get(lastRequest', "statements", <<>>)) => ConfirmedClear(lastRequest')
       /\ ((entities # <<>> /\ entities' = <<>>) \/ (nodes # {} /\ nodes' = {})) => ConfirmedClear(lastRequest')
       /\ \A req \in ManageRequests, lost \in BOOLEAN :
            (PostManage(req, lost) /\ req.action = "clear" /\ ~ConfirmSet(req))
            => /\ lastRequest'.response.status = 400
               /\ ~lastRequest'.response.body.success
               /\ lastRequest'.statements = <<>>
               /\ UNCHANGED <<entities, nodes, rels>>]_vars

\* C12 witness: a clear whose confirm flag is false was refused while the
\* store held CulturalEntity nodes, and they are still there
UnconfirmedClearRefused ==
    /\ lastRequest.route = "neo4j"
    /\ lastRequest.req = [action |-> "clear", confirm |-> Bool(FALSE)]
    /\ lastRequest.response.status = 400
    /\ entities # <<>>
    /\ nodes # {}

\* the upserts the store has answered with a row, and the entities of the others
Succeeded(outcomes) == {i \in 1..Len(outcomes) : outcomes[i]}
FailedNames(outcomes) == {CULTURAL_ENTITIES[i].name : i \in (1..Len(outcomes)) \ Succeeded(outcomes)}
NamedIn(text) == {text.items[i][2] : i \in 1..Len(text.items)}

\* C13: when createCulturalEntities has returned, every entity was tried
\* whatever happened to those before it; success is true exactly when some
\* upsert succeeded, created is then the number of successful upserts, and
\* when some upsert failed the error text names every failed entity.
BulkLoadReportsPartialFailure ==
    bulk.pc = "done" =>
        /\ Len(bulk.outcomes) = Len(CULTURAL_ENTITIES)
        /\ bulk.result.success = (Succeeded(bulk.outcomes) # {})
        /\ bulk.result.success => bulk.result.created = Cardinality(Succeeded(bulk.outcomes))
        /\ FailedNames(bulk.outcomes) # {} =>
              /\ Has(bulk.result, "error")
              /\ NamedIn(bulk.result.error) = FailedNames(bulk.outcomes)

\* C13 witness: the first upsert failed, the second succeeded, and the call
\* returned success with created = 1
BulkLoadPastFailure ==
    /\ bulk.pc = "done"
    /\ bulk.outcomes = <<FALSE, TRUE>>
    /\ bulk.result.success
    /\ bulk.result.created = 1

(***************************************************************************)
(* The properties of hybridSearch under fair scheduling.                   *)
(***************************************************************************)
\* C14: a hybridSearch call whose graph branch has answered eventually
\* returns unless the vector store answers (or fails) first: a vector store
\* that never answers does not keep the call from returning.
SilentVectorStoreStillReturns ==
    \A c \in Calls :
        (calls[c].pc = "hybrid" /\ calls[c].g.st = "done")
            ~> (calls[c].pc = "done" \/ calls[c].v.st \in {"done", "rejected"})

(***************************************************************************)
(* The properties of functions applied to drawn collaborators.             *)
(***************************************************************************)
EmptyRagContext(ctx) == ctx.nodes = <<>> /\ ctx.relationships = <<>> /\ ctx.paths = <<>>
RagFailureShape(out) == EmptyRagContext(out.context) /\ out.sources = <<>> /\ out.confidence = 0 /\ Has(out, "error")

DriverFails(in) == in.driver = "null" /\ (in.faults.create \/ in.faults.verify)
GatewayFails(in) == DriverFails(in) \/ in.faults.run \/ in.faults.close

\* C16: executeQuery, executeTransaction and checkNeo4jConnection return
\* whatever fails; when creating the driver, its test statement, the
\* statement (or the commit) or closing the session fails, the value is a
\* failure carrying an error ({success: false, error}, for
\* executeTransaction as an entry of the returned list; {connected: false,
\* error}), and when a statement of a transaction is rejected the returned
\* list holds such a failure.
GatewayReturnsFailureValues ==
    /\ probe.fn \in {"executeQuery", "executeTransaction", "checkNeo4jConnection"} => ~probe.output.throws
    /\ probe.fn = "executeQuery" =>
          /\ probe.output.value.success = ~GatewayFails(probe.input)
          /\ GatewayFails(probe.input) => Has(probe.output.value, "error") /\ probe.output.value.error # ""
    /\ probe.fn = "checkNeo4jConnection" =>
          /\ probe.output.value.connected = ~GatewayFails(probe.input)
          /\ GatewayFails(probe.input) => Has(probe.output.value, "error") /\ probe.output.value.error # ""
    /\ probe.fn = "executeTransaction" =>
          LET out == probe.output.value
              bad == {i \in 1..Len(out) : ~out[i].success}
          IN /\ (bad # {}) = (GatewayFails(probe.input) \/ probe.input.failing # {})
             /\ \A i \in bad : Has(out[i], "error") /\ out[i].error # ""
             /\ ~GatewayFails(probe.input) /\ probe.input.failing = {} => bad = {} /\ Len(out) = probe.input.n

\* C16 witness: the statement ran and closing the session failed, and
\* executeQuery returned a failure value
CloseFailureReturned ==
    /\ probe.fn = "executeQuery"
    /\ ~DriverFails(probe.input)
    /\ ~probe.input.faults.run
    /\ probe.input.faults.close
    /\ ~probe.output.throws
    /\ ~probe.output.value.success

(***************************************************************************)
(* The properties of traverseGraph alone.                                  *)
(***************************************************************************)
TraverseDone(c) == calls[c].pc = "done" /\ calls[c].kind = "traverse"
\* the start node of call c is not in the store, or no relationship touches it
StartWithoutEdges(c) ==
    LET id == ParseInt(calls[c].args.startNodeId)
    IN id \notin nodes \/ \A r \in rels : RelStart(r) # id /\ RelEnd(r) # id

\* C17: a traverseGraph call returns success=false only when its store
\* query failed; from a start node that does not exist or has no
\* relationship, when no store query of the call failed, it returns
\* success=true with paths, nodes and relationships empty and totalPaths = 0.
TraverseFromNowhereIsEmptySuccess ==
    \A c \in Calls :
        TraverseDone(c) =>
            /\ ~calls[c].result.success => calls[c].failed > 0
            /\ (StartWithoutEdges(c) /\ calls[c].failed = 0) =>
                  /\ calls[c].result.success
                  /\ calls[c].result.paths = <<>>
                  /\ calls[c].result.nodes = <<>>
                  /\ calls[c].result.relationships = <<>>
                  /\ calls[c].result.totalPaths = 0

\* C17 witness: the store holds node 3 without any relationship, a call
\* from "3" was answered by the store and returned the empty success, and
\* another from "7", which the store does not hold, did too
TraversedFromIsolatedAndMissing ==
    /\ 3 \in nodes /\ rels = {1}
    /\ \E c, d \in Calls :
          /\ TraverseDone(c) /\ TraverseDone(d)
          /\ calls[c].args = [startNodeId |-> "3"]
          /\ calls[d].args = [startNodeId |-> "7"]
          /\ calls[c].issued = 1 /\ calls[d].issued = 1
          /\ calls[c].result.success /\ calls[d].result.success
          /\ calls[c].result.totalPaths = 0 /\ calls[d].result.totalPaths = 0

\* the ids of a list of nodes or relationships, in order
Ids(seq) == [i \in 1..Len(seq) |-> seq[i].id]
RECURSIVE Flatten(_)
Flatten(seqs) == IF seqs = <<>> THEN <<>> ELSE Head(seqs) \o Flatten(Tail(seqs))
FirstAt(flat, x) == CHOOSE i \in 1..Len(flat) : flat[i] = x /\ \A j \in 1..(i - 1) : flat[j] # x
\* ids lists every id of flat once, in the order of first occurrence in flat
InFirstOccurrenceOrder(ids, flat) ==
    /\ Range(ids) = Range(flat)
    /\ \A i, j \in 1..Len(ids) : i < j => FirstAt(flat, ids[i]) < FirstAt(flat, ids[j])

\* C18: in every successful traverseGraph result the flat nodes list and
\* the flat relationships list hold no id twice, hold exactly the nodes and
\* relationships of the returned paths in first-occurrence order, and
\* totalPaths is the number of returned paths.
TraverseFlatListsAreDistinct ==
    \A c \in Calls :
        (TraverseDone(c) /\ calls[c].result.success) =>
            LET res == calls[c].result
                pathNodeIds == Flatten([i \in 1..Len(res.paths) |-> Ids(res.paths[i].nodes)])
                pathRelIds == Flatten([i \in 1..Len(res.paths) |-> Ids(res.paths[i].relationships)])
            IN /\ InFirstOccurrenceOrder(Ids(res.nodes), pathNodeIds)
               /\ InFirstOccurrenceOrder(Ids(res.relationships), pathRelIds)
               /\ res.totalPaths = Len(res.paths)

\* C18 witness: a traversal of the triangle returned six paths over three
\* nodes and three relationships
TraversedTriangle ==
    \E c \in Calls :
        /\ TraverseDone(c)
        /\ calls[c].result.success
        /\ calls[c].result.totalPaths = 6
        /\ Len(calls[c].result.nodes) = 3
        /\ Len(calls[c].result.relationships) = 3

\* the score a branch gives its i-th item: the item's own when it has a
\* non-zero one, else 1 - (i - 1) * 0.1
SourceScore(item, i) == IF Has(item, "score") /\ item.score # 0 THEN item.score ELSE 10 - (i - 1)
\* the weighted scores of both branches' items, graph items first
PooledScores(g, v) ==
    (IF g.success THEN [i \in 1..Len(g.data) |-> SourceScore(g.data[i], i) * 6] ELSE <<>>)
        \o (IF v.success THEN [i \in 1..Len(v.data) |-> SourceScore(v.data[i], i) * 3] ELSE <<>>)
\* scores with its largest entry (the first of them) taken out
WithoutMax(scores) ==
    LET m == CHOOSE i \in 1..Len(scores) : \A j \in 1..Len(scores) : scores[j] <= scores[i]
    IN [max |-> scores[m], rest |-> [i \in 1..(Len(scores) - 1) |-> IF i < m THEN scores[i] ELSE scores[i + 1]]]
RECURSIVE Largest(_, _)
Largest(scores, k) ==
    IF k = 0 \/ scores = <<>> THEN <<>>
    ELSE <<WithoutMax(scores).max>> \o Largest(WithoutMax(scores).rest, k - 1)
RECURSIVE SumOf(_)
SumOf(scores) == IF scores = <<>> THEN 0 ELSE Head(scores) + SumOf(Tail(scores))

\* C19: hybridSearch gives the i-th item of a branch the score
\* sourceScore * weight (graph 0.6, vector 0.3; hundredths here), keeps of
\* the pooled items the maxResults largest in descending order, and
\* returns as combinedScore their mean (sum over count; 0 over 0 when none
\* is kept).
HybridScoreIsMeanOfLargest ==
    probe.fn = "hybridSearch" =>
        LET in == probe.input
            pool == PooledScores(in.graphResults, in.vectorResults)
            kept == Largest(pool, in.maxResults)
        IN /\ [i \in 1..Len(probe.output.combinedResults) |-> probe.output.combinedResults[i].combinedScore] = pool
           /\ [i \in 1..Len(probe.output.finalResults) |-> probe.output.finalResults[i].combinedScore] = kept
           /\ probe.output.result.combinedScore = [sum |-> SumOf(kept), n |-> Len(kept)]
           /\ pool = <<>> => probe.output.result.combinedScore = [sum |-> 0, n |-> 0]

\* C19 witness: the pool held more items than maxResults, its largest
\* score was not its first, and the mean is that of the kept items only
HybridPoolSortedAndCut ==
    /\ probe.fn = "hybridSearch"
    /\ Len(probe.output.combinedResults) > probe.input.maxResults
    /\ probe.input.maxResults = 2
    /\ probe.output.combinedResults[1].combinedScore < probe.output.finalResults[1].combinedScore
    /\ probe.output.result.combinedScore.n = 2

(***************************************************************************)
(* The properties of the routes' validation.                               *)
(***************************************************************************)
\* C20: an add_entity request whose entity lacks name, type or description
\* is answered with an error that names the missing fields, and a traverse
\* request without startNodeId with an error that names startNodeId, and
\* in both cases no statement was sent to the graph store for the request.
RejectedBeforeAnyStoreCall ==
    /\ (/\ lastRequest.route = "graph/init"
        /\ lastRequest.req.action = "add_entity"
        /\ Has(lastRequest.req, "entity")
        /\ \E f \in Range(RequiredFields) : ~Has(lastRequest.req.entity, f))
        => /\ ~lastRequest.response.body.success
           /\ Has(lastRequest.response.body, "missingFields")
           /\ \A f \in Range(RequiredFields) :
                 ~Has(lastRequest.req.entity, f) => f \in Range(lastRequest.response.body.missingFields)
           /\ lastRequest.statements = <<>>
    /\ (/\ lastRequest.route = "graph/search"
        /\ lastRequest.req.type = "traverse"
        /\ ~Has(lastRequest.req.options, "startNodeId"))
        => /\ ~lastRequest.response.body.success
           /\ lastRequest.response.body.error = "startNodeId is required for traversal queries"
           /\ lastRequest.statements = <<>>

Weighted(ctx) == 2 * Len(ctx.nodes) + 3 * Len(ctx.relationships) + Len(ctx.paths)
CountsWithin(a, b) ==
    /\ Len(a.nodes) <= Len(b.nodes)
    /\ Len(a.relationships) <= Len(b.relationships)
    /\ Len(a.paths) <= Len(b.paths)
ContextMade == probe.fn = "generateGraphRAGContext"

\* C22: the relevanceScore of every context generateGraphRAGContext returns
\* is min(0.2 * nodes + 0.3 * relationships + 0.1 * paths, 1.0) (in tenths),
\* it lies in [0, 1], and a context made from another traversal outcome
\* with no fewer nodes, relationships and paths has no smaller score.
RelevanceIsClampedWeightedCount ==
    ContextMade =>
        LET ctx == probe.output
            in == probe.input
        IN /\ ctx.relevanceScore = (IF Weighted(ctx) < 10 THEN Weighted(ctx) ELSE 10)
           /\ ctx.relevanceScore \in 0..10
           /\ ~in.semanticGraphSearch.throws /\ in.semanticGraphSearch.value.data # <<>> =>
                 \A trav \in TraversalOutcomes(in.semanticGraphSearch.value.data[1].node, in.maxDepth) :
                    LET other == generateGraphRAGContextWith(in.query, in.includeRelatedEntities,
                                                             in.includeInsights, in.semanticGraphSearch, trav)
                    IN CountsWithin(ctx, other) => ctx.relevanceScore <= other.relevanceScore

\* C22 witness: the traversal from the seed returned nodes, relationships
\* and paths whose weighted count is above 1.0, and the score is 1.0
RelevanceClamped ==
    /\ ContextMade
    /\ Len(probe.output.relationships) > 0
    /\ Weighted(probe.output) > 10
    /\ probe.output.relevanceScore = 10

AlongEdges(path, start, forward) ==
    \A k \in 1..Len(path.relationships) :
        LET rel == path.relationships[k]
            from == IF forward THEN rel.startNodeId ELSE rel.endNodeId
            to == IF forward THEN rel.endNodeId ELSE rel.startNodeId
        IN from = (IF k = 1 THEN start
                   ELSE IF forward THEN path.relationships[k - 1].endNodeId
                   ELSE path.relationships[k - 1].startNodeId)

\* C24: the paths a traverseGraph call returns follow the relationships from
\* the start node in their stored direction when direction is OUTGOING and
\* against it when direction is INCOMING, with or without a
\* relationshipTypes filter.
TraverseHonoursDirection ==
    \A c \in Calls :
        (TraverseDone(c) /\ Has(calls[c].args, "direction") /\ calls[c].result.success)
        => \A i \in 1..Len(calls[c].result.paths) :
              /\ calls[c].args.direction = "OUTGOING"
                    => AlongEdges(calls[c].result.paths[i], calls[c].args.startNodeId, TRUE)
              /\ calls[c].args.direction = "INCOMING"
                    => AlongEdges(calls[c].result.paths[i], calls[c].args.startNodeId, FALSE)

\* C25: every path the gateway converted (here: the paths of a successful
\* traverseGraph result) has length = the number of its relationships and
\* a nodes list that holds each node id at most once; with as many distinct
\* nodes as length + 1 (a simple path) the list has length + 1 entries.
ConvertedPathNodesDistinct ==
    \A c \in Calls :
        (TraverseDone(c) /\ calls[c].result.success)
        => \A i \in 1..Len(calls[c].result.paths) :
              LET path == calls[c].result.paths[i]
              IN /\ path.length = Len(path.relationships)
                 /\ \A j, k \in 1..Len(path.nodes) : path.nodes[j].id = path.nodes[k].id => j = k
                 /\ Cardinality(Range(Ids(path.nodes))) = path.length + 1
                       => Len(path.nodes) = path.length + 1

\* the sources of a response by type
SourcesOfType(r, type) == {i \in 1..Len(r.sources) : r.sources[i].type = type}

\* C26: every successful graphRAGQuery response has exactly one graph
\* source, which carries the context's nodes and relationships with the
\* context's relevance, and has a vector source, one, of relevance 0.8,
\* exactly when includeVector is true and the vector branch of hybridSearch
\* returned success.
SourcesFollowBranches ==
    \A c \in Calls :
        (calls[c].kind = "rag" /\ Settled(c) /\ calls[c].result.success)
        => LET r == calls[c].result
               vectorSucceeded == /\ calls[c].args.includeVector
                                  /\ calls[c].v.st = "done"
                                  /\ calls[c].v.result.success
           IN /\ Cardinality(SourcesOfType(r, "graph")) = 1
              /\ \A i \in SourcesOfType(r, "graph") :
                    /\ r.sources[i].nodes = r.context.nodes
                    /\ r.sources[i].relationships = r.context.relationships
                    /\ r.sources[i].relevance = r.context.relevanceScore
              /\ Cardinality(SourcesOfType(r, "vector")) = (IF vectorSucceeded THEN 1 ELSE 0)
              /\ \A i \in SourcesOfType(r, "vector") : r.sources[i].relevance = 8
              /\ Len(r.sources) = (IF vectorSucceeded THEN 2 ELSE 1)

\* C26 witness: of two successful responses one was asked with
\* includeVector and its vector branch succeeded (two sources), the other's
\* vector branch returned a failure (the graph source alone)
SourcesWithAndWithoutVector ==
    \E c, d \in Calls :
        /\ calls[c].kind = "rag" /\ Settled(c) /\ calls[c].result.success
        /\ calls[d].kind = "rag" /\ Settled(d) /\ calls[d].result.success
        /\ calls[c].args.includeVector /\ calls[c].v.st = "done" /\ calls[c].v.result.success
        /\ Len(calls[c].result.sources) = 2
        /\ Len(calls[c].result.context.nodes) > 0
        /\ calls[d].args.includeVector /\ calls[d].v.st = "done" /\ ~calls[d].v.result.success
        /\ Len(calls[d].result.sources) = 1

\* C27: the management endpoint reports "Graph data cleared successfully"
\* only for a clear whose delete statement the store executed: right after
\* such a response the store holds no node and no relationship.
ClearedReportMeansDeleted ==
    (/\ lastRequest.route = "neo4j"
     /\ lastRequest.req.action = "clear"
     /\ lastRequest.response.status = 200
     /\ lastRequest.response.body.success)
    => nodes = {} /\ rels = {} /\ entities = <<>>

\* C28: a semanticGraphSearch or traverseGraph call made after
\* clearGraphData has emptied the store returns none of the nodes and
\* relationships the clear removed, also when an identical query was cached
\* before the clear: a call that starts on the empty store and returns at
\* once returns an empty result.
NothingStaleAfterClear ==
    [][\A c \in Calls :
          (/\ nodes = {}
           /\ calls[c].pc = "idle"
           /\ calls'[c].pc = "done"
           /\ calls'[c].kind \in {"traverse", "semantic"}
           /\ calls'[c].result.success)
          => IF calls'[c].kind = "traverse"
             THEN calls'[c].result.nodes = <<>> /\ calls'[c].result.relationships = <<>>
             ELSE calls'[c].result.data = <<>>]_vars

\* the lines of an answer that list the names under a connection type
ConnectionLines(answer, context) ==
    {i \in 1..Len(answer) :
        \E k \in 1..Len(context.relationships) :
            answer[i].s = formatRelationshipType(context.relationships[k].type)}

SessionsOn(d) ==
    {p \in GatewayCalls : gateway.calls[p].pc \in {"initTest", "running"} /\ gateway.calls[p].drv = d}
GatewayStarted == {p \in GatewayCalls : gateway.calls[p].pc # "idle"}

\* C30: starting with no driver, under every interleaving of executeQuery,
\* executeTransaction and checkNeo4jConnection calls, one driver instance
\* is made and every call obtains it, and no instance is closed while a
\* call holds a session on it.
OneDriverSharedAndOpen ==
    /\ gateway.created <= 1
    /\ GatewayStarted # {} => gateway.created = 1
    /\ \A p \in GatewayStarted : gateway.calls[p].drv = 1
    /\ \A d \in gateway.closed : SessionsOn(d) = {}

\* C30 witness: while the first call still awaits the test statement of
\* initializeNeo4jDriver, two later calls of other functions have obtained
\* the same instance and one of them runs its statement on it
SharedWhileInitializing ==
    \E p, q, r \in GatewayCalls :
        /\ gateway.calls[p].pc = "initTest"
        /\ gateway.calls[q].pc = "running"
        /\ gateway.calls[r].pc = "haveDriver"
        /\ Cardinality({gateway.calls[p].fn, gateway.calls[q].fn, gateway.calls[r].fn}) = 3
        /\ gateway.calls[q].drv = gateway.calls[p].drv
        /\ gateway.calls[r].drv = gateway.calls[p].drv

====
